---- MODULE Spec2Model ----
(***************************************************************************)
(* Attendance import (src/src/app/api/import/attendance/route.ts) over the *)
(* relational store of prisma/migrations.  Strings are TLA+ strings; the   *)
(* uploaded file is its decoded text.  Every request runs as a process     *)
(* whose steps are the handler's code between two awaited store calls.     *)
(***************************************************************************)
EXTENDS Integers, Sequences, FiniteSets, TLC

(***************************************************************************)
(* JavaScript string primitives used by the handler                        *)
(***************************************************************************)
\* null / undefined is None, a present value v is Some(v)
None == <<>>

Some(v) == <<v>>

IsSome(o) == o # <<>>

Get(o) == o[1]

\* o ?? d
OrElse(o, d) == IF o = <<>> THEN d ELSE o[1]

Ch(s, i) == SubSeq(s, i, i)

Rest(s) == SubSeq(s, 2, Len(s))

UpperAlpha == "ABCDEFGHIJKLMNOPQRSTUVWXYZ"

LowerAlpha == "abcdefghijklmnopqrstuvwxyz"

Digits == "0123456789"

IsSpace(c) == c \in {" ", "\t", "\r", "\n"}

IsDigit(c) == \E i \in 1..10 : Ch(Digits, i) = c

DigitVal(c) == (CHOOSE i \in 1..10 : Ch(Digits, i) = c) - 1

LowerChar(c) ==
  IF \E i \in 1..26 : Ch(UpperAlpha, i) = c
  THEN Ch(LowerAlpha, CHOOSE i \in 1..26 : Ch(UpperAlpha, i) = c)
  ELSE c

UpperChar(c) ==
  IF \E i \in 1..26 : Ch(LowerAlpha, i) = c
  THEN Ch(UpperAlpha, CHOOSE i \in 1..26 : Ch(LowerAlpha, i) = c)
  ELSE c

\* character by character, halving the string to keep the recursion shallow
RECURSIVE ToLowerCase(_)
ToLowerCase(s) ==
  IF Len(s) = 0 THEN ""
  ELSE IF Len(s) = 1 THEN LowerChar(s)
  ELSE ToLowerCase(SubSeq(s, 1, Len(s) \div 2))
         \o ToLowerCase(SubSeq(s, Len(s) \div 2 + 1, Len(s)))

RECURSIVE ToUpperCase(_)
ToUpperCase(s) ==
  IF Len(s) = 0 THEN ""
  ELSE IF Len(s) = 1 THEN UpperChar(s)
  ELSE ToUpperCase(SubSeq(s, 1, Len(s) \div 2))
         \o ToUpperCase(SubSeq(s, Len(s) \div 2 + 1, Len(s)))

\* one white-space character at a time
RECURSIVE TrimStart(_)
TrimStart(s) ==
  IF s # "" /\ IsSpace(Ch(s, 1)) THEN TrimStart(Rest(s)) ELSE s

RECURSIVE TrimEnd(_)
TrimEnd(s) ==
  IF s # "" /\ IsSpace(Ch(s, Len(s))) THEN TrimEnd(SubSeq(s, 1, Len(s) - 1)) ELSE s

Trim(s) == TrimEnd(TrimStart(s))

StartsWith(s, p) == Len(s) >= Len(p) /\ SubSeq(s, 1, Len(p)) = p

EndsWith(s, p) ==
  Len(s) >= Len(p) /\ SubSeq(s, Len(s) - Len(p) + 1, Len(s)) = p

Includes(s, p) ==
  \E i \in 1..(Len(s) - Len(p) + 1) : SubSeq(s, i, i + Len(p) - 1) = p

\* s.split(sep) for a one-character separator
Split(s, sep) ==
  LET seps   == {i \in 1..Len(s) : Ch(s, i) = sep}
      \* position of the k-th separator; 0 before the first, Len(s) + 1 after the last
      pos(k) == IF k = 0 THEN 0
                ELSE IF k > Cardinality(seps) THEN Len(s) + 1
                ELSE CHOOSE i \in seps : Cardinality({j \in seps : j < i}) = k - 1
  IN  [k \in 1..(Cardinality(seps) + 1) |-> SubSeq(s, pos(k - 1) + 1, pos(k) - 1)]

\* text.split(/\r?\n/): a "\r" directly before a "\n" belongs to the separator
SplitLines(text) ==
  LET raw == Split(text, "\n")
  IN  [k \in 1..Len(raw) |->
         IF k < Len(raw) /\ EndsWith(raw[k], "\r")
         THEN SubSeq(raw[k], 1, Len(raw[k]) - 1)
         ELSE raw[k]]

\* parts[idx] ?? "" with a 0-based idx that may be -1 or past the end
At0(parts, idx) ==
  IF idx >= 0 /\ idx < Len(parts) THEN parts[idx + 1] ELSE ""

(***************************************************************************)
(* JavaScript numbers: a value is NaN or the decimal num / scale           *)
(***************************************************************************)
NaN == [nan |-> TRUE, num |-> 0, scale |-> 1]

Num(n) == [nan |-> FALSE, num |-> n, scale |-> 1]

AllDigits(s) == s # "" /\ \A i \in 1..Len(s) : IsDigit(Ch(s, i))

RECURSIVE DigitsVal(_, _)
DigitsVal(s, acc) ==
  IF s = "" THEN acc ELSE DigitsVal(Rest(s), acc * 10 + DigitVal(Ch(s, 1)))

RECURSIVE Pow10(_)
Pow10(k) == IF k = 0 THEN 1 ELSE 10 * Pow10(k - 1)

\* one value, one representation: 7.50 is 75 / 10 and 7.0 is 7 / 1
RECURSIVE Reduce(_)
Reduce(n) ==
  IF n.scale > 1 /\ n.num % 10 = 0
  THEN Reduce([n EXCEPT !.num = n.num \div 10, !.scale = n.scale \div 10])
  ELSE n

IndexOf(s, c) ==
  IF \E i \in 1..Len(s) : Ch(s, i) = c
  THEN CHOOSE i \in 1..Len(s) : Ch(s, i) = c /\ \A j \in 1..(i - 1) : Ch(s, j) # c
  ELSE 0

\* Number(v) for decimal literals: optional sign, digits, optional fraction;
\* the empty and the blank string are 0, everything else is NaN
UnsignedNumber(u) ==
  LET dot == IndexOf(u, ".")
      ip  == IF dot = 0 THEN u ELSE SubSeq(u, 1, dot - 1)
      fp  == IF dot = 0 THEN "" ELSE SubSeq(u, dot + 1, Len(u))
  IN  IF dot = 0
      THEN IF AllDigits(u) THEN Num(DigitsVal(u, 0)) ELSE NaN
      ELSE IF (ip = "" \/ AllDigits(ip)) /\ (fp = "" \/ AllDigits(fp))
              /\ ~(ip = "" /\ fp = "")
           THEN Reduce([nan |-> FALSE, num |-> DigitsVal(ip \o fp, 0),
                        scale |-> Pow10(Len(fp))])
           ELSE NaN

JsNumber(v) ==
  LET t == Trim(v)
  IN  IF t = "" THEN Num(0)
      ELSE IF Ch(t, 1) = "-"
           THEN LET u == UnsignedNumber(Rest(t))
                IN  IF u.nan THEN NaN ELSE [u EXCEPT !.num = 0 - u.num]
      ELSE IF Ch(t, 1) = "+" THEN UnsignedNumber(Rest(t))
      ELSE UnsignedNumber(t)

IsInteger(n) == ~n.nan /\ n.num % n.scale = 0

\* rounding towards minus infinity
MathFloor(n) == (n.num - (n.num % n.scale)) \div n.scale

\* Math.round: halves go up
MathRound(n) == (2 * n.num + n.scale) \div (2 * n.scale)

RECURSIVE NatToString(_)
NatToString(n) ==
  IF n < 10 THEN Ch(Digits, n + 1)
  ELSE NatToString(n \div 10) \o Ch(Digits, (n % 10) + 1)

RECURSIVE PadLeft(_, _)
PadLeft(s, w) == IF Len(s) >= w THEN s ELSE PadLeft("0" \o s, w)

RECURSIVE StripZeros(_)
StripZeros(s) ==
  IF s # "" /\ Ch(s, Len(s)) = "0"
  THEN StripZeros(SubSeq(s, 1, Len(s) - 1))
  ELSE s

RECURSIVE Log10(_)
Log10(sc) == IF sc <= 1 THEN 0 ELSE 1 + Log10(sc \div 10)

\* `${n}` of a number
NumberToString(n) ==
  IF n.nan THEN "NaN"
  ELSE LET a    == IF n.num < 0 THEN 0 - n.num ELSE n.num
           frac == StripZeros(PadLeft(NatToString(a % n.scale), Log10(n.scale)))
           body == NatToString(a \div n.scale)
                     \o (IF n.scale = 1 \/ frac = "" THEN "" ELSE "." \o frac)
       IN  IF n.num < 0 THEN "-" \o body ELSE body

(***************************************************************************)
(* Dates: new Date(v) for the ISO shape YYYY-MM-DDTHH:MM:SS[.sss]Z; text   *)
(* outside this shape is taken as an Invalid Date.  A Date is its UTC      *)
(* fields.                                                                 *)
(***************************************************************************)
IsoShape(v) ==
  /\ Len(v) \in {20, 24}
  /\ \A i \in {1, 2, 3, 4, 6, 7, 9, 10, 12, 13, 15, 16, 18, 19} : IsDigit(Ch(v, i))
  /\ Ch(v, 5) = "-" /\ Ch(v, 8) = "-" /\ Ch(v, 11) = "T"
  /\ Ch(v, 14) = ":" /\ Ch(v, 17) = ":"
  /\ Ch(v, Len(v)) = "Z"
  /\ (Len(v) = 24 => Ch(v, 20) = "." /\ AllDigits(SubSeq(v, 21, 23)))

DateFields(v) ==
  [y  |-> DigitsVal(SubSeq(v, 1, 4), 0),   mo |-> DigitsVal(SubSeq(v, 6, 7), 0),
   d  |-> DigitsVal(SubSeq(v, 9, 10), 0),  h  |-> DigitsVal(SubSeq(v, 12, 13), 0),
   mi |-> DigitsVal(SubSeq(v, 15, 16), 0), s  |-> DigitsVal(SubSeq(v, 18, 19), 0),
   ms |-> IF Len(v) = 24 THEN DigitsVal(SubSeq(v, 21, 23), 0) ELSE 0]

ValidDate(f) ==
  /\ f.mo \in 1..12 /\ f.d \in 1..31
  /\ f.h \in 0..23 /\ f.mi \in 0..59 /\ f.s \in 0..59

\* Date.prototype.toISOString
ToISOString(f) ==
  PadLeft(NatToString(f.y), 4) \o "-" \o PadLeft(NatToString(f.mo), 2) \o "-"
    \o PadLeft(NatToString(f.d), 2) \o "T" \o PadLeft(NatToString(f.h), 2) \o ":"
    \o PadLeft(NatToString(f.mi), 2) \o ":" \o PadLeft(NatToString(f.s), 2) \o "."
    \o PadLeft(NatToString(f.ms), 3) \o "Z"

(***************************************************************************)
(* route.ts: pure helpers                                                  *)
(***************************************************************************)
IsLetter(c) ==
  \E i \in 1..26 : Ch(UpperAlpha, i) = c \/ Ch(LowerAlpha, i) = c

IsWordChar(c) == IsLetter(c) \/ IsDigit(c) \/ c = "_"

\* /\b[A-Z]{2}\d{4}NU\b/i matches at position i of name
ModuleCodeAt(name, i) ==
  /\ i + 7 <= Len(name)
  /\ (i = 1 \/ ~IsWordChar(Ch(name, i - 1)))
  /\ IsLetter(Ch(name, i)) /\ IsLetter(Ch(name, i + 1))
  /\ \A k \in 2..5 : IsDigit(Ch(name, i + k))
  /\ ToUpperCase(SubSeq(name, i + 6, i + 7)) = "NU"
  /\ (i + 7 = Len(name) \/ ~IsWordChar(Ch(name, i + 8)))

parseModuleCodeFromFilename(name) ==
  IF \E i \in 1..Len(name) : ModuleCodeAt(name, i)
  THEN LET i == CHOOSE k \in 1..Len(name) :
                  ModuleCodeAt(name, k) /\ \A j \in 1..(k - 1) : ~ModuleCodeAt(name, j)
       IN  Some(ToUpperCase(SubSeq(name, i, i + 7)))
  ELSE None

\* end of the maximal digit run that starts at i
RECURSIVE DigitRunEnd(_, _)
DigitRunEnd(v, i) ==
  IF i < Len(v) /\ IsDigit(Ch(v, i + 1)) THEN DigitRunEnd(v, i + 1) ELSE i

RECURSIVE SkipSpaces(_, _)
SkipSpaces(v, i) ==
  IF i <= Len(v) /\ IsSpace(Ch(v, i)) THEN SkipSpaces(v, i + 1) ELSE i

\* /(\d+)\s*u/i matches with its digit group starting at i
UnitAt(v, i, u) ==
  /\ IsDigit(Ch(v, i))
  /\ (i = 1 \/ ~IsDigit(Ch(v, i - 1)))
  /\ LET k == SkipSpaces(v, DigitRunEnd(v, i) + 1)
     IN  k <= Len(v) /\ LowerChar(Ch(v, k)) = u

\* v.match(/(\d+)\s*u/i): the captured number of the leftmost match
UnitMatch(v, u) ==
  IF \E i \in 1..Len(v) : UnitAt(v, i, u)
  THEN LET i == CHOOSE k \in 1..Len(v) :
                  UnitAt(v, k, u) /\ \A j \in 1..(k - 1) : ~UnitAt(v, j, u)
       IN  Some(DigitsVal(SubSeq(v, i, DigitRunEnd(v, i)), 0))
  ELSE None

\* /^(\d{1,2}):(\d{2}):(\d{2})$/
ClockParts(v) ==
  LET p == Split(v, ":")
  IN  IF Len(p) = 3 /\ Len(p[1]) \in {1, 2} /\ Len(p[2]) = 2 /\ Len(p[3]) = 2
         /\ AllDigits(p[1]) /\ AllDigits(p[2]) /\ AllDigits(p[3])
      THEN Some(<<DigitsVal(p[1], 0), DigitsVal(p[2], 0), DigitsVal(p[3], 0)>>)
      ELSE None

\* parseMinutes without the return at line 14
parseMinutesNoEmptyCheck(value) ==
  LET v   == Trim(value)
      hms == ClockParts(v)
      hr  == UnitMatch(v, "h")
      mr  == UnitMatch(v, "m")
      sr  == UnitMatch(v, "s")
      mins60 == (IF IsSome(hr) THEN Get(hr) * 3600 ELSE 0)
                  + (IF IsSome(mr) THEN Get(mr) * 60 ELSE 0)
                  + (IF IsSome(sr) THEN Get(sr) ELSE 0)
      n   == JsNumber(v)
  IN  IF IsSome(hms)
      THEN Some(MathRound([nan |-> FALSE,
                           num |-> Get(hms)[1] * 3600 + Get(hms)[2] * 60 + Get(hms)[3],
                           scale |-> 60]))
      ELSE IF mins60 > 0
           THEN Some(MathRound([nan |-> FALSE, num |-> mins60, scale |-> 60]))
      ELSE IF ~n.nan THEN Some(MathRound(n))
      ELSE None

parseMinutes(value) ==
  LET v   == Trim(value)
      hms == ClockParts(v)
      hr  == UnitMatch(v, "h")
      mr  == UnitMatch(v, "m")
      sr  == UnitMatch(v, "s")
      \* mins, in sixtieths of a minute
      mins60 == (IF IsSome(hr) THEN Get(hr) * 3600 ELSE 0)
                  + (IF IsSome(mr) THEN Get(mr) * 60 ELSE 0)
                  + (IF IsSome(sr) THEN Get(sr) ELSE 0)
      n   == JsNumber(v)
  IN  IF v = "" THEN None
      ELSE IF IsSome(hms)
           THEN Some(MathRound([nan |-> FALSE,
                                num |-> Get(hms)[1] * 3600 + Get(hms)[2] * 60 + Get(hms)[3],
                                scale |-> 60]))
      ELSE IF mins60 > 0
           THEN Some(MathRound([nan |-> FALSE, num |-> mins60, scale |-> 60]))
      ELSE IF ~n.nan THEN Some(MathRound(n))
      ELSE None

\* new Date(v) without the getTime() check: an Invalid Date is handed on
parseDateNoCheck(value) ==
  LET v == Trim(value)
  IN  IF v = "" THEN None
      ELSE IF IsoShape(v) /\ ValidDate(DateFields(v)) THEN Some(DateFields(v))
      ELSE Some([y |-> 0, mo |-> 0, d |-> 0, h |-> 0, mi |-> 0, s |-> 0, ms |-> 0])

parseDate(value) ==
  LET v == Trim(value)
  IN  IF v = "" THEN None
      ELSE IF IsoShape(v) /\ ValidDate(DateFields(v)) THEN Some(DateFields(v))
      ELSE None

\* findIndex(lines, predicate, start), 0-based, over n lines; hits is the set
\* of the indexes whose line satisfies the predicate
findIndex(n, hits, start) ==
  LET from == {i \in start..(n - 1) : i \in hits}
  IN  IF from = {} THEN -1 ELSE CHOOSE i \in from : \A j \in from : i <= j

normIntake(v) ==
  LET s == ToLowerCase(Trim(v))
  IN  IF s = "spring" THEN "Spring"
      ELSE IF s = "summer" THEN "Summer"
      ELSE IF s = "autumn" \/ s = "fall" THEN "Autumn"
      ELSE Trim(v)

\* the code as typed, only trimmed
normModuleCodeNoUpper(v) == Trim(v)

normModuleCode(v) == ToUpperCase(Trim(v))

(***************************************************************************)
(* The handler's derived values (route.ts 112-141, 166-218)                *)
(***************************************************************************)
\* 0-based lines[i]
Line(lines, i) == lines[i + 1]

IsSection2Marker(l) == Trim(l) = "2. Participants"

\* /^3\.\s*In-Meeting Activities/i.test(l.trim())
IsSection3Marker(l) ==
  LET t == Trim(l)
  IN  /\ StartsWith(t, "3.")
      /\ StartsWith(ToLowerCase(TrimStart(SubSeq(t, 3, Len(t)))), "in-meeting activities")

IsHeaderLine(l) ==
  /\ StartsWith(l, "Name\t")
  /\ Includes(l, "\tEmail\t")
  /\ Includes(l, "In-Meeting Duration")

\* index of the line at which the summary loop breaks, or the last line
SummaryLast(lines) ==
  LET m == findIndex(Len(lines),
                     {i \in 0..(Len(lines) - 1) : IsSection2Marker(Line(lines, i))}, 0)
  IN  IF m = -1 THEN Len(lines) - 1 ELSE m

\* the line sets summary[k]
SetsSummary(l, k) ==
  LET parts == Split(l, "\t")
  IN  Len(parts) >= 2 /\ Trim(parts[1]) = k /\ k # "" /\ Trim(parts[2]) # ""

\* summary[k] after the summary loop: the last assignment wins
summaryGet(lines, k) ==
  LET last == SummaryLast(lines)
      hits == {i \in 0..last : SetsSummary(Line(lines, i), k)}
  IN  IF hits = {} THEN None
      ELSE LET i == CHOOSE j \in hits : \A h \in hits : h <= j
           IN  Some(Trim(Split(Line(lines, i), "\t")[2]))

IsoOrEmpty(d) == IF IsSome(d) THEN ToISOString(Get(d)) ELSE ""

\* the key without its start and end times
sessionKeyNoTimes(intake, year, moduleCode, startTime, endTime, meetingName) ==
  ToLowerCase(intake \o "|" \o NumberToString(year) \o "|" \o moduleCode \o "|"
                \o OrElse(meetingName, ""))

sessionKeyOf(intake, year, moduleCode, startTime, endTime, meetingName) ==
  ToLowerCase(intake \o "|" \o NumberToString(year) \o "|" \o moduleCode \o "|"
                \o IsoOrEmpty(startTime) \o "|" \o IsoOrEmpty(endTime) \o "|"
                \o OrElse(meetingName, ""))

\* header.findIndex((h) => h === name), 0-based
colIndex(header, name) ==
  findIndex(Len(header), {i \in 0..(Len(header) - 1) : header[i + 1] = name}, 0)

TrimAll(parts) == [k \in 1..Len(parts) |-> Trim(parts[k])]

\* line 166
idxSection2Of(lines) ==
  findIndex(Len(lines),
            {k \in 0..(Len(lines) - 1) : IsSection2Marker(Line(lines, k))}, 0)

\* a window that runs to the end of the file
section2EndOfFile(lines) == Len(lines)

\* lines 174-179
section2EndOf(lines) ==
  LET idxSection3 ==
        findIndex(Len(lines),
                  {k \in 0..(Len(lines) - 1) : IsSection3Marker(Line(lines, k))},
                  idxSection2Of(lines) + 1)
  IN  IF idxSection3 = -1 THEN Len(lines) ELSE idxSection3

\* lines 181-188
headerIndexOf(lines) ==
  findIndex(Len(lines),
            {k \in 0..(Len(lines) - 1) : IsHeaderLine(Line(lines, k))},
            idxSection2Of(lines) + 1)

\* line 200
headerOf(lines) == TrimAll(Split(Line(lines, headerIndexOf(lines)), "\t"))

\* the check without !year
invalidIntakeYearNoZero(intake, year) == intake = "" \/ year.nan

\* line 85: !intake || !year || Number.isNaN(year)
invalidIntakeYear(intake, year) == intake = "" \/ year.nan \/ year.num = 0

ELIGIBLE_SUFFIX == "@stu.nexteducationgroup.com"

\* the suffix test on the email as typed
isEligibleAsTyped(emailRaw) == EndsWith(emailRaw, ELIGIBLE_SUFFIX)

\* lines 233, 243: emailRaw.toLowerCase().endsWith(...)
isEligibleOf(emailRaw) == EndsWith(ToLowerCase(emailRaw), ELIGIBLE_SUFFIX)

\* a placeholder without the line index
placeholderEmailFixed(i) == "unknown@invalid.local"

placeholderEmail(i) == "unknown-" \o NatToString(i) \o "@invalid.local"

(***************************************************************************)
(* Requests: the multipart form handed to POST                             *)
(***************************************************************************)
JoinLines(ls) ==
  LET RECURSIVE J(_)
      J(k) == IF k > Len(ls) THEN ""
              ELSE IF k = Len(ls) THEN ls[k]
              ELSE ls[k] \o "\r\n" \o J(k + 1)
  IN  J(1)

Req(intake, year, moduleCode, file) ==
  [intake |-> intake, year |-> year, moduleCode |-> moduleCode, file |-> file]

File(name, ls) == Some([name |-> name, text |-> JoinLines(ls)])

HeaderFull == "Name\tFirst Join\tLast Leave\tIn-Meeting Duration\tEmail\tRole"

HeaderMin == "Name\tIn-Meeting Duration\tEmail\tUPN"

HeaderBadDuration == "Name\tIn-Meeting Duration (min)\tEmail\tUPN"

RowAlice ==
  "Alice\t2026-02-10T09:00:00Z\tlater\t45m 0s\tAlice@STU.nexteducationgroup.com\tAttendee"

RowBob == "Bob\t2026-02-10T09:05:00Z\t2026-02-10T09:50:00Z\t0:44:30\tbob@gmail.com\t"

RowAnonFull == "Guest\t\t\t5\t\tAttendee"

LinesStandup(start) ==
  << "1. Summary", "Meeting title\tWeekly Standup", "Start time\t" \o start,
     "Meeting duration\t1h 0m", "", "2. Participants", HeaderFull,
     RowAlice, RowBob, "", RowAnonFull, "",
     "3. In-Meeting Activities", "Name\tJoin Time\tEmail\tRole",
     "Zed\t2026-02-10T09:00:00Z\tzed@stu.nexteducationgroup.com\tAttendee" >>

FileStandup9 == File("standup.csv", LinesStandup("2026-02-10T09:00:00Z"))

FileStandup10 == File("standup.csv", LinesStandup("2026-02-10T10:00:00.000Z"))

\* the module code is only in the file name, which holds two; the second row
\* has a duration that is no duration
FileNamed == File("Spring 2026 mn5070nu (not MN6000NU).csv",
                  << "2. Participants", HeaderMin, "Cho\t12m\tcho@stu.nexteducationgroup.com\tx",
                     "Dee\tn/a\tdee@example.org\tx", "Fox\t1:00:00\tfox@example.org" >>)

\* no "2. Participants" line
FileNoMarker == File("x.csv",
                     << "Meeting title\tLecture", "Participants", HeaderMin,
                        "Dan\t30m\tdan@stu.nexteducationgroup.com\tx" >>)

\* the only header lies after the Section 3 marker
FileNoHeader == File("x.csv",
                     << "Meeting title\tLecture", "2. Participants",
                        "Dan\t30m\tdan@stu.nexteducationgroup.com\tx",
                        "3. in-meeting activities", HeaderMin >>)

FileBadColumn == File("x.csv",
                      << "Meeting title\tLecture", "2. Participants", HeaderBadDuration,
                         "Dan\t30m\tdan@stu.nexteducationgroup.com\tx" >>)

\* the same email twice, the second time without a name
FileDup == File("AB1234NU lab.csv",
                << "Meeting title\tLab", "2. Participants", HeaderMin,
                   "Eve\t10m\teve@stu.nexteducationgroup.com\tx",
                   "\t20m\tEVE@stu.nexteducationgroup.com\tx", "noise" >>)

\* two rows without email and a row whose email is the text of a placeholder
FileAnon == File("x.csv",
                 << "2. Participants", HeaderMin, "Guest A\t7m\t\t", "Guest B\t8m\t\t",
                    "Mallory\t9m\tunknown-2@invalid.local\t" >>)

FileTitleY == File("x.csv", << "Meeting title\ty", "2. Participants", HeaderMin >>)

\* nothing but blank lines and a line without a tab between the header and Section 3
FileTitlePipeY == File("x.csv",
                       << "Meeting title\t|y", "2. Participants", HeaderMin, "", "noise", " \t ",
                          "3. In-Meeting Activities", HeaderMin,
                          "Zed\t5m\tzed@stu.nexteducationgroup.com\tx" >>)

\* another export of the meeting of FileDup: same title, other duration and rows
FileDupLate == File("x.csv",
                    << "Meeting title\tLab", "Meeting duration\t50m", "2. Participants", HeaderMin,
                       "Eve\t30m\teve@stu.nexteducationgroup.com\tx",
                       "Fay\t5m\tfay@example.org\tx" >>)

\* a meeting of another module with a student of FileDup under a fuller name
FileLecture == File("x.csv",
                    << "Meeting title\tLecture", "2. Participants", HeaderMin,
                       "Eve Adams\t40m\teve@stu.nexteducationgroup.com\tx",
                       "Fay\t5m\tfay@example.org\tx" >>)

M1 == Some("MN5070NU")

Requests ==
  { Req(Some("Spring"), Some("2026"), M1, FileStandup9),
    Req(Some("Spring"), Some("2026"), M1, FileStandup10),
    Req(Some(" FALL "), Some(" 2026 "), None, FileNamed),
    Req(Some("Spring"), Some("2026"), M1, FileDup),
    Req(Some("Spring"), Some("2026"), M1, FileAnon),
    Req(Some("Spring"), Some("2026"), M1, FileTitlePipeY),
    Req(Some("Spring"), Some("2026"), Some("mn5070nu|"), FileTitleY),
    Req(Some("Spring"), Some("2026"), M1, FileNoMarker),
    Req(Some("Summer"), Some("2026"), M1, FileNoHeader),
    Req(Some("Summer"), Some("2026"), Some("MN6000NU"), FileBadColumn),
    Req(Some("Winter"), Some("2026"), M1, FileTitleY),
    Req(Some("Spring"), Some("-2026"), M1, FileTitleY),
    Req(Some("Spring"), Some("2026.5"), M1, FileTitleY),
    Req(Some("  "), Some("2026"), M1, FileStandup9),
    Req(None, Some("2026"), M1, FileStandup9),
    Req(Some("Spring"), None, M1, FileStandup9),
    Req(Some("Spring"), Some("0"), M1, FileStandup9),
    Req(Some("Spring"), Some("next"), M1, FileStandup9),
    Req(Some("Spring"), Some("2026"), M1, None),
    Req(Some("Spring"), Some("2026"), None, FileStandup9) }

\* requests of the interleaved runs
ConcRequests ==
  { Req(Some("Spring"), Some("2026"), M1, FileDup),
    Req(Some("spring"), Some("2026.0"), Some("mn5070nu"), FileDupLate),
    Req(Some("Spring"), Some("2026"), M1, FileNoMarker) }

(***************************************************************************)
(* State                                                                   *)
(***************************************************************************)
\* requests accepted in one run of Spec (one request at a time)
MaxImports == 2

\* requests accepted in one run of SpecConc (two requests in flight)
MaxConcImports == 2

\* store calls that may throw in one run of SpecConc
MaxFaults == 1

Procs == {"p1", "p2"}

VARIABLES
  Module,      \* table Module: rows [code, name]
  Session,     \* table Session: rows [id, sessionKey, moduleCode, meetingName, ...]
  Student,     \* table Student: rows [id, email, name]
  Attendance,  \* table Attendance: rows [id, sessionId, studentId, emailRaw, ...]
  proc,        \* per request slot: position in POST and its local variables
  log,         \* completed requests: request, response, tables before and after
  started,     \* number of requests accepted so far
  faults,      \* number of store calls that have thrown
  arg,         \* SpecParse: the text handed to parseMinutes
  out,         \* SpecParse: None, or Some(the value parseMinutes returned)
  Enrollment,  \* table Enrollment: rows [id, studentId, moduleCode, intake, year]
  Program,     \* table Program: rows [id, name]
  ProgramModule, \* table ProgramModule: rows [id, programId, moduleCode]
  job          \* the enrollment or module-master import in progress: position and locals

\* what the attendance import never writes
masters == <<Enrollment, Program, ProgramModule, job>>

vars == <<Module, Session, Student, Attendance, proc, log, started, faults, arg, out, masters>>

tables == <<Module, Session, Student, Attendance>>

Tables == [Module |-> Module, Session |-> Session, Student |-> Student,
           Attendance |-> Attendance]

\* no enrollment or module-master import has been received
IdleJob ==
  [kind |-> "", pc |-> "idle", file |-> None, i |-> 1, student |-> None, program |-> None,
   seenRowKeys |-> {}, counts |-> <<>>, resp |-> None]

IdleLocal ==
  [pc |-> "idle", req |-> None, db0 |-> None, decoded |-> FALSE,
   intake |-> "", year |-> NaN, moduleCode |-> "", lines |-> <<>>,
   meetingName |-> None, startTime |-> None, endTime |-> None, durationMin |-> None,
   sessionKey |-> "", session |-> None, headerIndex |-> -1, section2End |-> 0,
   idxName |-> -1, idxEmail |-> -1, idxFirstJoin |-> -1, idxLastLeave |-> -1,
   idxDuration |-> -1, idxRole |-> -1, i |-> 0, student |-> None,
   rowsRead |-> 0, attendanceUpserted |-> 0, eligibleCount |-> 0, resp |-> None]

(***************************************************************************)
(* Store: prisma upserts over tables with the migration's unique indexes   *)
(***************************************************************************)
\* cuid(): an id no row of the table has
NewId(table) == Cardinality(table) + 1

\* an upsert that sets the name of the row it finds
moduleUpsertOverwrite(T, code) ==
  {m \in T : m.code # code} \cup {[code |-> code, name |-> code]}

\* prisma.module.upsert({where: {code}, update: {}, create: {code, name: code}})
moduleUpsert(T, code) ==
  IF \E m \in T : m.code = code THEN T
  ELSE T \cup {[code |-> code, name |-> code]}

\* a create in place of the upsert
sessionCreate(T, key, data) == T \cup {[id |-> NewId(T), sessionKey |-> key] @@ data}

\* an upsert with an empty update
sessionUpsertKeep(T, key, data) ==
  IF \E r \in T : r.sessionKey = key THEN T
  ELSE T \cup {[id |-> NewId(T), sessionKey |-> key] @@ data}

\* prisma.session.upsert({where: {sessionKey}, update: {...}, create: {...}})
sessionUpsert(T, key, data) ==
  IF \E r \in T : r.sessionKey = key
  THEN {IF r.sessionKey = key
        THEN [id |-> r.id, sessionKey |-> r.sessionKey] @@ data
        ELSE r : r \in T}
  ELSE T \cup {[id |-> NewId(T), sessionKey |-> key] @@ data}

sessionByKey(T, key) == CHOOSE r \in T : r.sessionKey = key

\* a create in place of the upsert
studentCreate(T, email, name) ==
  T \cup {[id |-> NewId(T), email |-> email, name |-> name]}

\* prisma.student.upsert({where: {email}, update: {name: name ?? undefined},
\*                        create: {email, name}})
studentUpsert(T, email, name) ==
  IF \E r \in T : r.email = email
  THEN {IF r.email = email /\ IsSome(name) THEN [r EXCEPT !.name = name] ELSE r : r \in T}
  ELSE T \cup {[id |-> NewId(T), email |-> email, name |-> name]}

studentByEmail(T, email) == CHOOSE r \in T : r.email = email

\* a create in place of the upsert
attendanceCreate(T, sessionId, studentId, data) ==
  T \cup {[id |-> NewId(T), sessionId |-> sessionId, studentId |-> studentId] @@ data}

\* an upsert that adds the minutes to those of the row it finds
attendanceUpsertSum(T, sessionId, studentId, data) ==
  IF \E r \in T : r.sessionId = sessionId /\ r.studentId = studentId
  THEN {IF r.sessionId = sessionId /\ r.studentId = studentId
        THEN [id |-> r.id, sessionId |-> r.sessionId, studentId |-> r.studentId]
               @@ [data EXCEPT !.minutes = IF IsSome(r.minutes) /\ IsSome(data.minutes)
                                           THEN Some(Get(r.minutes) + Get(data.minutes))
                                           ELSE data.minutes]
        ELSE r : r \in T}
  ELSE T \cup {[id |-> NewId(T), sessionId |-> sessionId, studentId |-> studentId] @@ data}

\* prisma.attendance.upsert({where: {sessionId_studentId}, update: {...}, create: {...}})
attendanceUpsert(T, sessionId, studentId, data) ==
  IF \E r \in T : r.sessionId = sessionId /\ r.studentId = studentId
  THEN {IF r.sessionId = sessionId /\ r.studentId = studentId
        THEN [id |-> r.id, sessionId |-> r.sessionId, studentId |-> r.studentId] @@ data
        ELSE r : r \in T}
  ELSE T \cup {[id |-> NewId(T), sessionId |-> sessionId, studentId |-> studentId] @@ data}

\* Session.year is INTEGER: the client refuses a value that is not an integer
FitsInt(n) == IsInteger(n)

(***************************************************************************)
(* Initial stores: empty, or as left by an earlier import of another       *)
(* export of the 09:00 stand-up (title in capitals, no duration line, two  *)
(* participants, one of them in no later file) into the same cohort        *)
(***************************************************************************)
EmptyStore == [Module |-> {}, Session |-> {}, Student |-> {}, Attendance |-> {}]

EarlierStart == parseDate("2026-02-10T09:00:00Z")

EarlierStore ==
  [Module |-> moduleUpsert({}, "MN5070NU"),
   Session |-> sessionUpsert({},
                 sessionKeyOf("Spring", Num(2026), "MN5070NU", EarlierStart, None,
                              Some("WEEKLY STANDUP")),
                 [moduleCode |-> "MN5070NU", meetingName |-> Some("WEEKLY STANDUP"),
                  startTime |-> EarlierStart, endTime |-> None, durationMin |-> None,
                  intake |-> "Spring", year |-> 2026]),
   Student |-> studentUpsert(
                 studentUpsert({}, "alice@stu.nexteducationgroup.com", Some("Alice Smith")),
                 "yan@stu.nexteducationgroup.com", Some("Yan")),
   Attendance |-> attendanceUpsert(
                    attendanceUpsert({}, 1, 1,
                      [emailRaw |-> "alice@stu.nexteducationgroup.com", firstJoin |-> None,
                       lastLeave |-> None, minutes |-> Some(10), role |-> None,
                       isEligible |-> TRUE]),
                    1, 2,
                    [emailRaw |-> "Yan@stu.nexteducationgroup.com", firstJoin |-> None,
                     lastLeave |-> None, minutes |-> Some(55), role |-> None,
                     isEligible |-> TRUE])]

InitStores == {EmptyStore, EarlierStore}

Init ==
  /\ \E st \in InitStores :
       /\ Module = st.Module /\ Session = st.Session
       /\ Student = st.Student /\ Attendance = st.Attendance
  /\ proc = [p \in Procs |-> IdleLocal]
  /\ log = <<>>
  /\ started = 0
  /\ faults = 0
  /\ arg = ""
  /\ out = None
  /\ Enrollment = {} /\ Program = {} /\ ProgramModule = {}
  /\ job = IdleJob

(***************************************************************************)
(* POST /api/import/attendance                                             *)
(***************************************************************************)
Error(status, msg) == [status |-> status, error |-> msg]

\* the request ends: NextResponse.json(...)
Respond(p, loc, resp) ==
  /\ proc' = [proc EXCEPT ![p] = [loc EXCEPT !.pc = "done", !.resp = Some(resp)]]
  /\ log' = Append(log, [p |-> p, req |-> Get(loc.req), resp |-> resp,
                         valid |-> loc.decoded, lines |-> loc.lines,
                         sessionKey |-> loc.sessionKey,
                         durationMin |-> loc.durationMin, at |-> loc.pc, i |-> loc.i,
                         tuple |-> <<loc.intake, loc.year, loc.moduleCode,
                                     loc.startTime, loc.endTime, loc.meetingName>>,
                         db0 |-> loc.db0,
                         db |-> IF IsSome(loc.db0)
                                THEN Some([Module |-> Module', Session |-> Session',
                                           Student |-> Student', Attendance |-> Attendance'])
                                ELSE None])

\* A request arrives.  With snap, the tables before the request and at its
\* response are kept in the log.
Receive(p, req, limit, snap) ==
  /\ proc[p].pc \in {"idle", "done"}
  /\ started < limit
  /\ started' = started + 1
  /\ proc' = [proc EXCEPT ![p] = [IdleLocal EXCEPT !.pc = "validate", !.req = Some(req),
                                                   !.db0 = IF snap THEN Some(Tables)
                                                           ELSE None]]
  /\ UNCHANGED <<tables, log, faults, arg, out, masters>>

\* lines 75-109: form fields, intake/year check, file check, module code
Validate(p) ==
  LET loc    == proc[p]
      req    == Get(loc.req)
      intake == normIntake(OrElse(req.intake, ""))
      year   == JsNumber(OrElse(req.year, ""))
      moduleFromForm     == normModuleCode(OrElse(req.moduleCode, ""))
      moduleFromFilename == IF IsSome(req.file)
                            THEN parseModuleCodeFromFilename(Get(req.file).name)
                            ELSE None
      moduleCode == IF moduleFromForm # "" THEN moduleFromForm
                    ELSE OrElse(moduleFromFilename, "")
      loc1   == [loc EXCEPT !.intake = intake, !.year = year]
  IN  /\ loc.pc = "validate"
      /\ UNCHANGED <<tables, started, faults, arg, out, masters>>
      /\ IF invalidIntakeYear(intake, year)
         THEN Respond(p, loc1,
                Error(400, "Missing or invalid intake/year. Please select Intake + Year."))
         ELSE IF ~IsSome(req.file)
         THEN Respond(p, loc1, Error(400, "No file uploaded"))
         ELSE IF moduleCode = ""
         THEN Respond(p, loc1,
                Error(400, "Missing Module Code. Please select a Module Code (or include it in the filename)."))
         ELSE /\ proc' = [proc EXCEPT ![p] = [loc1 EXCEPT !.moduleCode = moduleCode,
                                                          !.pc = "decode"]]
              /\ UNCHANGED log

\* lines 112-141: decode, summary block, session key
Decode(p) ==
  LET loc   == proc[p]
      lines == SplitLines(Get(Get(loc.req).file).text)
      meetingName == summaryGet(lines, "Meeting title")
      startTime   == parseDate(OrElse(summaryGet(lines, "Start time"), ""))
      endTime     == parseDate(OrElse(summaryGet(lines, "End time"), ""))
      d1          == parseMinutes(OrElse(summaryGet(lines, "Meeting duration"), ""))
      durationMin == IF IsSome(d1) THEN d1
                     ELSE parseMinutes(OrElse(summaryGet(lines, "Duration"), ""))
  IN  /\ loc.pc = "decode"
      /\ proc' = [proc EXCEPT ![p] =
                    [loc EXCEPT !.pc = "module", !.decoded = TRUE, !.lines = lines,
                                !.meetingName = meetingName, !.startTime = startTime,
                                !.endTime = endTime, !.durationMin = durationMin,
                                !.sessionKey = sessionKeyOf(loc.intake, loc.year,
                                                 loc.moduleCode, startTime, endTime,
                                                 meetingName)]]
      /\ UNCHANGED <<tables, log, started, faults, arg, out, masters>>

\* the handler without its module upsert
UpsertModuleOmitted(p) ==
  /\ proc[p].pc = "module"
  /\ proc' = [proc EXCEPT ![p].pc = "session"]
  /\ UNCHANGED <<tables, log, started, faults, arg, out, masters>>

\* lines 144-148
UpsertModule(p) ==
  LET loc == proc[p]
  IN  /\ loc.pc = "module"
      /\ Module' = moduleUpsert(Module, loc.moduleCode)
      /\ proc' = [proc EXCEPT ![p].pc = "session"]
      /\ UNCHANGED <<Session, Student, Attendance, log, started, faults, arg, out, masters>>

\* lines 150-163; a year the column cannot hold makes the call throw (line 286)
UpsertSession(p) ==
  LET loc  == proc[p]
      data == [moduleCode |-> loc.moduleCode, meetingName |-> loc.meetingName,
               startTime |-> loc.startTime, endTime |-> loc.endTime,
               durationMin |-> loc.durationMin, intake |-> loc.intake,
               year |-> loc.year.num]
  IN  /\ loc.pc = "session"
      /\ UNCHANGED <<Module, Student, Attendance, started, faults, arg, out, masters>>
      /\ IF FitsInt(loc.year)
         THEN /\ Session' = sessionUpsert(Session, loc.sessionKey, data)
              /\ proc' = [proc EXCEPT ![p] =
                            [loc EXCEPT !.pc = "section2",
                                        !.session = Some(sessionByKey(Session', loc.sessionKey))]]
              /\ UNCHANGED log
         ELSE /\ Session' = Session
              /\ Respond(p, loc, Error(500, "Invalid value for argument year"))

\* lines 166-222: Section 2 window, header row, column indexes
LocateSection2(p) ==
  LET loc   == proc[p]
      lines == loc.lines
      idxSection2 == idxSection2Of(lines)
      section2End == section2EndOf(lines)
      headerIndex == headerIndexOf(lines)
      header      == headerOf(lines)
      idxName     == colIndex(header, "Name")
      idxEmail    == colIndex(header, "Email")
      idxDuration == colIndex(header, "In-Meeting Duration")
  IN  /\ loc.pc = "section2"
      /\ UNCHANGED <<tables, started, faults, arg, out, masters>>
      /\ IF idxSection2 = -1
         THEN Respond(p, loc, Error(400, "Could not find '2. Participants' section."))
         ELSE IF headerIndex = -1 \/ headerIndex >= section2End
         THEN Respond(p, loc,
                Error(400, "Could not find Participants table header for Section 2 (with 'In-Meeting Duration')."))
         ELSE IF idxName = -1 \/ idxEmail = -1 \/ idxDuration = -1
         THEN Respond(p, loc,
                Error(400, "Missing required columns in Section 2 (need Name, Email, In-Meeting Duration)."))
         ELSE /\ proc' = [proc EXCEPT ![p] =
                            [loc EXCEPT !.pc = "loop", !.headerIndex = headerIndex,
                                        !.section2End = section2End,
                                        !.idxName = idxName, !.idxEmail = idxEmail,
                                        !.idxFirstJoin = colIndex(header, "First Join"),
                                        !.idxLastLeave = colIndex(header, "Last Leave"),
                                        !.idxDuration = idxDuration,
                                        !.idxRole = colIndex(header, "Role"),
                                        !.i = headerIndex + 1]]
              /\ UNCHANGED log

\* the row test without line 226
IsDataRowNoBlankCheck(line) == Len(Split(line, "\t")) >= 2

\* lines 225-229: the row at loc.i is read (not blank, at least two fields)
IsDataRow(line) == Trim(line) # "" /\ Len(Split(line, "\t")) >= 2

\* lines 224-229: continue
SkipLine(p) ==
  LET loc == proc[p]
  IN  /\ loc.pc = "loop"
      /\ loc.i < loc.section2End
      /\ ~IsDataRow(Line(loc.lines, loc.i))
      /\ proc' = [proc EXCEPT ![p].i = loc.i + 1]
      /\ UNCHANGED <<tables, log, started, faults, arg, out, masters>>

rowEmail(loc) == ToLowerCase(Trim(At0(Split(Line(loc.lines, loc.i), "\t"), loc.idxEmail)))

rowIdentity(loc) ==
  IF rowEmail(loc) # "" THEN rowEmail(loc) ELSE placeholderEmail(loc.i)

\* lines 231-241
UpsertStudent(p) ==
  LET loc   == proc[p]
      parts == Split(Line(loc.lines, loc.i), "\t")
      nm    == Trim(At0(parts, loc.idxName))
      name  == IF nm = "" THEN None ELSE Some(nm)
  IN  /\ loc.pc = "loop"
      /\ loc.i < loc.section2End
      /\ IsDataRow(Line(loc.lines, loc.i))
      /\ Student' = studentUpsert(Student, rowIdentity(loc), name)
      /\ proc' = [proc EXCEPT ![p] =
                    [loc EXCEPT !.pc = "attendance", !.rowsRead = loc.rowsRead + 1,
                                !.student = Some(studentByEmail(Student', rowIdentity(loc)))]]
      /\ UNCHANGED <<Module, Session, Attendance, log, started, faults, arg, out, masters>>

\* lines 243-271
UpsertAttendance(p) ==
  LET loc        == proc[p]
      parts      == Split(Line(loc.lines, loc.i), "\t")
      emailRaw   == Trim(At0(parts, loc.idxEmail))
      email      == ToLowerCase(emailRaw)
      isEligible == isEligibleOf(emailRaw)
      firstJoin  == IF loc.idxFirstJoin >= 0
                    THEN parseDate(At0(parts, loc.idxFirstJoin)) ELSE None
      lastLeave  == IF loc.idxLastLeave >= 0
                    THEN parseDate(At0(parts, loc.idxLastLeave)) ELSE None
      minutes    == parseMinutes(At0(parts, loc.idxDuration))
      rl         == IF loc.idxRole >= 0 THEN Trim(At0(parts, loc.idxRole)) ELSE ""
      role       == IF rl = "" THEN None ELSE Some(rl)
      data       == [emailRaw |-> emailRaw, firstJoin |-> firstJoin,
                     lastLeave |-> lastLeave, minutes |-> minutes, role |-> role,
                     isEligible |-> isEligible]
  IN  /\ loc.pc = "attendance"
      /\ Attendance' = attendanceUpsert(Attendance, Get(loc.session).id,
                                        Get(loc.student).id, data)
      /\ proc' = [proc EXCEPT ![p] =
                    [loc EXCEPT !.pc = "loop", !.i = loc.i + 1,
                                !.eligibleCount = loc.eligibleCount + (IF isEligible THEN 1 ELSE 0),
                                !.attendanceUpserted = loc.attendanceUpserted + 1]]
      /\ UNCHANGED <<Module, Session, Student, log, started, faults, arg, out, masters>>

\* lines 274-285
Succeed(p) ==
  LET loc == proc[p]
  IN  /\ loc.pc = "loop"
      /\ loc.i >= loc.section2End
      /\ UNCHANGED <<tables, started, faults, arg, out, masters>>
      /\ Respond(p, loc,
           [status |-> 200, ok |-> TRUE, moduleCode |-> loc.moduleCode,
            intake |-> loc.intake, year |-> loc.year, sessionId |-> Get(loc.session).id,
            rowsRead |-> loc.rowsRead, attendanceUpserted |-> loc.attendanceUpserted,
            eligibleCount |-> loc.eligibleCount, durationMin |-> loc.durationMin,
            sourceUsed |-> "section2_only"])

\* line 286: an awaited store call throws, the catch answers 500
StorageError(p) ==
  LET loc == proc[p]
  IN  /\ \/ loc.pc \in {"module", "session", "attendance"}
         \/ loc.pc = "loop" /\ loc.i < loc.section2End /\ IsDataRow(Line(loc.lines, loc.i))
      /\ faults < MaxFaults
      /\ faults' = faults + 1
      /\ UNCHANGED <<tables, started, arg, out, masters>>
      /\ Respond(p, loc, Error(500, "Can't reach database server"))

\* steps that touch no table
LocalStep(p) ==
  \/ Validate(p)
  \/ Decode(p)
  \/ LocateSection2(p)
  \/ SkipLine(p)
  \/ Succeed(p)

\* awaited store calls
StoreStep(p) ==
  \/ UpsertModule(p)
  \/ UpsertSession(p)
  \/ UpsertStudent(p)
  \/ UpsertAttendance(p)

\* one request at a time
Next ==
  \/ \E req \in Requests : Receive("p1", req, MaxImports, TRUE)
  \/ LocalStep("p1")
  \/ StoreStep("p1")

Spec == Init /\ [][Next]_vars

\* requests of the runs in which a store call may throw
RetryRequests ==
  { Req(Some("Spring"), Some("2026"), M1, FileStandup9),
    Req(Some("Spring"), Some("2026"), M1, FileDup),
    Req(Some("Spring"), Some("2026"), M1, FileAnon),
    Req(Some("Summer"), Some("2026"), None, FileNamed) }

\* one request at a time; an awaited store call may throw, and the caller may
\* submit again
NextRetry ==
  \/ \E req \in RetryRequests : Receive("p1", req, MaxImports, TRUE)
  \/ LocalStep("p1")
  \/ StoreStep("p1")
  \/ StorageError("p1")

SpecRetry == Init /\ [][NextRetry]_vars

AtLocalStep(p) ==
  LET loc == proc[p]
  IN  \/ loc.pc \in {"validate", "decode", "section2"}
      \/ loc.pc = "loop" /\ (loc.i >= loc.section2End \/ ~IsDataRow(Line(loc.lines, loc.i)))

\* no request is at code that touches no table
Quiet == \A q \in Procs : ~AtLocalStep(q)

\* Two requests in flight, interleaved at the awaited store calls.  The code
\* between two store calls touches only the request's own variables, so it
\* runs as soon as it can; every order of the store calls remains possible.
NextConc ==
  \E p \in Procs :
    \/ LocalStep(p)
    \/ \E req \in ConcRequests : Quiet /\ Receive(p, req, MaxConcImports, FALSE)
    \/ Quiet /\ UpsertModule(p)
    \/ Quiet /\ UpsertSession(p)
    \/ Quiet /\ UpsertStudent(p)
    \/ Quiet /\ UpsertAttendance(p)
    \/ Quiet /\ StorageError(p)

SpecConc == Init /\ [][NextConc]_vars

\* requests of two cohorts that share a student
CohortRequests ==
  { Req(Some("Spring"), Some("2026"), M1, FileDup),
    Req(Some("Summer"), Some("2026"), Some("MN6000NU"), FileLecture) }

InitCohorts == Init /\ Tables = EmptyStore

\* two requests in flight, interleaved at the awaited store calls, none throws
NextCohorts ==
  \E p \in Procs :
    \/ LocalStep(p)
    \/ \E req \in CohortRequests : Quiet /\ Receive(p, req, MaxConcImports, FALSE)
    \/ Quiet /\ UpsertModule(p)
    \/ Quiet /\ UpsertSession(p)
    \/ Quiet /\ UpsertStudent(p)
    \/ Quiet /\ UpsertAttendance(p)

SpecCohorts == InitCohorts /\ [][NextCohorts]_vars

(***************************************************************************)
(* POST /api/import/enrollments                                            *)
(***************************************************************************)
\* what the enrollment and module-master imports never touch
attendanceSide == <<Session, Attendance, proc, log, arg, out>>

\* one of the words Spring, Summer, Autumn starts at i, between word boundaries
IntakeWordAt(name, i) ==
  /\ i + 5 <= Len(name)
  /\ ToLowerCase(SubSeq(name, i, i + 5)) \in {"spring", "summer", "autumn"}
  /\ (i = 1 \/ ~IsWordChar(Ch(name, i - 1)))
  /\ (i + 5 = Len(name) \/ ~IsWordChar(Ch(name, i + 6)))

\* 20dd starts at j, between word boundaries
YearAt(name, j) ==
  /\ j + 3 <= Len(name)
  /\ SubSeq(name, j, j + 1) = "20"
  /\ IsDigit(Ch(name, j + 2)) /\ IsDigit(Ch(name, j + 3))
  /\ (j = 1 \/ ~IsWordChar(Ch(name, j - 1)))
  /\ (j + 3 = Len(name) \/ ~IsWordChar(Ch(name, j + 4)))

\* /\b(Spring|Summer|Autumn)\b.*?\b(20\d{2})\b/i: leftmost word that a year
\* follows, and the first year after it
parseIntakeYearFromFilename(name) ==
  LET Years(i) == {j \in (i + 6)..Len(name) : YearAt(name, j)}
      S == {i \in 1..Len(name) : IntakeWordAt(name, i) /\ Years(i) # {}}
      i == CHOOSE x \in S : \A y \in S : x <= y
      j == CHOOSE x \in Years(i) : \A y \in Years(i) : x <= y
  IN  IF S = {} THEN None
      ELSE Some([intake |-> normIntake(SubSeq(name, i, i + 5)),
                 year |-> Num(DigitsVal(SubSeq(name, j, j + 3), 0))])

\* a row as Papa.parse hands it over: a column the file lacks is None
EnrollmentRow(email, name, moduleCode, intake, year) ==
  [StudentEmail |-> email, StudentName |-> name, ModuleCode |-> moduleCode,
   Intake |-> intake, Year |-> year]

\* the parsed upload: file name, whether the parser reported errors, the rows
Parsed(name, errors, rows) == Some([name |-> name, errors |-> errors, rows |-> rows])

\* cohort from the file name; a student in capitals, a row without email, a
\* student without name in a cohort of its own
EnrolSpring ==
  Parsed("Spring 2026 enrolments.csv", FALSE,
         << EnrollmentRow(Some(" Alice@STU.nexteducationgroup.com "), Some("Alice A."),
                          Some(" mn5070nu "), None, None),
            EnrollmentRow(Some(" "), Some("Nobody"), Some("MN5070NU"), None, None),
            EnrollmentRow(Some("eve@stu.nexteducationgroup.com"), Some(" "),
                          Some("MN5070NU"), Some(" fall "), Some("2027")) >>)

\* no cohort in the file name: a row without cohort, a row with one, a row
\* whose year is no integer
EnrolColumns ==
  Parsed("students_2026.csv", FALSE,
         << EnrollmentRow(Some("bob@gmail.com"), Some("Bob"), Some("MN6000NU"), None, None),
            EnrollmentRow(Some("yan@stu.nexteducationgroup.com"), Some("Yan Li"),
                          Some("MN5070NU"), Some("Spring"), Some("2026")),
            EnrollmentRow(Some("Zed@stu.nexteducationgroup.com"), Some("Zed"),
                          Some("mn6000nu"), Some("Summer"), Some("2026.5")) >>)

EnrolBroken == Parsed("Spring 2026.csv", TRUE, <<>>)

EnrollFiles == {EnrolSpring, EnrolColumns, EnrolBroken, None}

\* lines 68-71
enrEmail(r) == ToLowerCase(Trim(OrElse(r.StudentEmail, "")))

enrName(r) ==
  IF Trim(OrElse(r.StudentName, "")) = "" THEN None ELSE Some(Trim(OrElse(r.StudentName, "")))

enrModuleCode(r) == normModuleCode(OrElse(r.ModuleCode, ""))

\* lines 79-80
enrIntake(r, inferred) ==
  normIntake(Trim(IF IsSome(r.Intake) THEN Get(r.Intake)
                  ELSE IF IsSome(inferred) THEN Get(inferred).intake ELSE ""))

\* lines 82-83; undefined is NaN here, both are refused at line 85
enrYear(r, inferred) ==
  IF IsSome(r.Year) THEN JsNumber(Get(r.Year))
  ELSE IF IsSome(inferred) THEN Get(inferred).year ELSE NaN

\* lines 73 and 85: the row is counted as skipped
enrSkipped(r, inferred) ==
  \/ enrEmail(r) = "" \/ enrModuleCode(r) = ""
  \/ enrIntake(r, inferred) = ""
  \/ enrYear(r, inferred).nan \/ enrYear(r, inferred).num = 0

\* prisma.student.upsert({where: {email}, update: {name, program},
\*                        create: {email, name, program}}); the column
\* program, which nothing here reads, is left out
studentUpsertProfile(T, email, name) ==
  IF \E r \in T : r.email = email
  THEN {IF r.email = email THEN [r EXCEPT !.name = name] ELSE r : r \in T}
  ELSE T \cup {[id |-> NewId(T), email |-> email, name |-> name]}

\* prisma.enrollment.upsert({where: {studentId_moduleCode_intake_year}, update: {},
\*                           create: {...}})
enrollmentUpsert(T, studentId, moduleCode, intake, year) ==
  IF \E r \in T : /\ r.studentId = studentId /\ r.moduleCode = moduleCode
                  /\ r.intake = intake /\ r.year = year
  THEN T
  ELSE T \cup {[id |-> NewId(T), studentId |-> studentId, moduleCode |-> moduleCode,
                intake |-> intake, year |-> year]}

NoImportRunning == proc["p1"].pc \in {"idle", "done"} /\ job.pc \in {"idle", "done"}

JobRespond(resp) == job' = [job EXCEPT !.pc = "done", !.resp = Some(resp)]

JobRow == Get(job.file).rows[job.i]

JobInferred == parseIntakeYearFromFilename(Get(job.file).name)

\* lines 37-63
EnrollReceive(file) ==
  /\ NoImportRunning
  /\ started < MaxImports
  /\ started' = started + 1
  /\ job' = IF ~IsSome(file)
            THEN [IdleJob EXCEPT !.kind = "enrollments", !.pc = "done",
                                 !.resp = Some(Error(400, "No file uploaded"))]
            ELSE IF Get(file).errors
            THEN [IdleJob EXCEPT !.kind = "enrollments", !.pc = "done", !.file = file,
                                 !.resp = Some(Error(400, "CSV parse error"))]
            ELSE [IdleJob EXCEPT !.kind = "enrollments", !.pc = "row", !.file = file,
                                 !.counts = [studentsUpserted |-> 0, enrollmentsUpserted |-> 0,
                                             rowsSkipped |-> 0]]
  /\ UNCHANGED <<Module, Student, Enrollment, Program, ProgramModule, faults, attendanceSide>>

AtEnrollRow == job.kind = "enrollments" /\ job.pc = "row" /\ job.i <= Len(Get(job.file).rows)

\* lines 73-76 and 85-88
EnrollSkipRow ==
  /\ AtEnrollRow
  /\ enrSkipped(JobRow, JobInferred)
  /\ job' = [job EXCEPT !.i = job.i + 1, !.counts.rowsSkipped = @ + 1]
  /\ UNCHANGED <<Module, Student, Enrollment, Program, ProgramModule, started, faults,
                 attendanceSide>>

\* lines 91-95
EnrollUpsertModule ==
  /\ AtEnrollRow
  /\ ~enrSkipped(JobRow, JobInferred)
  /\ Module' = moduleUpsert(Module, enrModuleCode(JobRow))
  /\ job' = [job EXCEPT !.pc = "student"]
  /\ UNCHANGED <<Student, Enrollment, Program, ProgramModule, started, faults, attendanceSide>>

\* lines 97-102
EnrollUpsertStudent ==
  /\ job.kind = "enrollments" /\ job.pc = "student"
  /\ Student' = studentUpsertProfile(Student, enrEmail(JobRow), enrName(JobRow))
  /\ job' = [job EXCEPT !.pc = "enrollment",
                        !.student = Some(studentByEmail(Student', enrEmail(JobRow))),
                        !.counts.studentsUpserted = @ + 1]
  /\ UNCHANGED <<Module, Enrollment, Program, ProgramModule, started, faults, attendanceSide>>

\* lines 104-121; a year the column cannot hold makes the call throw (line 130)
EnrollUpsertEnrollment ==
  /\ job.kind = "enrollments" /\ job.pc = "enrollment"
  /\ UNCHANGED <<Module, Student, Program, ProgramModule, started, faults, attendanceSide>>
  /\ IF FitsInt(enrYear(JobRow, JobInferred))
     THEN /\ Enrollment' = enrollmentUpsert(Enrollment, Get(job.student).id,
                                            enrModuleCode(JobRow), enrIntake(JobRow, JobInferred),
                                            enrYear(JobRow, JobInferred).num)
          /\ job' = [job EXCEPT !.pc = "row", !.i = job.i + 1,
                                !.counts.enrollmentsUpserted = @ + 1]
     ELSE /\ Enrollment' = Enrollment
          /\ JobRespond(Error(500, "Invalid value for argument year"))

\* lines 124-129
EnrollSucceed ==
  /\ job.kind = "enrollments" /\ job.pc = "row" /\ job.i > Len(Get(job.file).rows)
  /\ JobRespond([status |-> 200, ok |-> TRUE] @@ job.counts)
  /\ UNCHANGED <<Module, Student, Enrollment, Program, ProgramModule, started, faults,
                 attendanceSide>>

(***************************************************************************)
(* POST /api/import/modules                                                *)
(***************************************************************************)
\* String(v ?? "").trim() of a text cell
toStr(v) == Trim(v)

\* a code as the sheet has it
normCodeAsTyped(v) == v

normCode(v) == ToUpperCase(Trim(v))

normProgram(v) == Trim(v)

\* a row of the first sheet with defval "": every column is a text
ModuleRow(code, name, program) == [ModuleCode |-> code, ModuleName |-> name, Program |-> program]

Sheet(rows) == Some([name |-> "modules.xlsx", errors |-> FALSE, rows |-> rows])

\* a module in two programmes, a repeated (module, programme) pair under
\* another name, a row without a name
ModuleMaster ==
  Sheet(<< ModuleRow(" mn5070nu ", "Marketing", "MSc Management"),
           ModuleRow("MN5070NU", "Marketing Strategy", "msc management "),
           ModuleRow("MN5070NU", "Marketing", "MBA"),
           ModuleRow("MN6000NU", "", "MBA") >>)

\* the name of a module changes; a programme name in other letter case
ModuleRenamed ==
  Sheet(<< ModuleRow("mn5070nu", "Marketing II", "mba") >>)

ModuleFiles == {ModuleMaster, ModuleRenamed, None}

\* prisma.module.upsert({where: {code}, update: {name}, create: {code, name}})
moduleUpsertNamed(T, code, name) ==
  IF \E m \in T : m.code = code
  THEN {IF m.code = code THEN [m EXCEPT !.name = name] ELSE m : m \in T}
  ELSE T \cup {[code |-> code, name |-> name]}

\* prisma.program.findUnique({where: {name}})
programFindUnique(T, name) == {r \in T : r.name = name}

\* prisma.program.create({data: {name}})
programCreate(T, name) == T \cup {[id |-> NewId(T), name |-> name]}

\* prisma.programModule.findUnique({where: {programId_moduleCode}})
programModuleFindUnique(T, programId, moduleCode) ==
  {r \in T : r.programId = programId /\ r.moduleCode = moduleCode}

\* prisma.programModule.create({data: {programId, moduleCode}})
programModuleCreate(T, programId, moduleCode) ==
  T \cup {[id |-> NewId(T), programId |-> programId, moduleCode |-> moduleCode]}

modCode == normCode(toStr(JobRow.ModuleCode))

modName == toStr(JobRow.ModuleName)

modProgram == normProgram(toStr(JobRow.Program))

rowKey == modCode \o "||" \o ToLowerCase(modProgram)

\* lines 74-100
ModulesReceive(file) ==
  /\ NoImportRunning
  /\ started < MaxImports
  /\ started' = started + 1
  /\ job' = IF ~IsSome(file)
            THEN [IdleJob EXCEPT !.kind = "modules", !.pc = "done",
                                 !.resp = Some(Error(400, "No file uploaded (field name must be 'file')"))]
            ELSE [IdleJob EXCEPT !.kind = "modules", !.pc = "row", !.file = file,
                                 !.counts = [rowsRead |-> 0, skipped |-> 0, modulesCreated |-> 0,
                                             modulesUpdated |-> 0, programsCreated |-> 0,
                                             linksCreated |-> 0]]
  /\ UNCHANGED <<Module, Student, Enrollment, Program, ProgramModule, faults, attendanceSide>>

AtModulesRow == job.kind = "modules" /\ job.pc = "row" /\ job.i <= Len(Get(job.file).rows)

\* lines 109-118
modSkipped == modCode = "" \/ modName = "" \/ modProgram = "" \/ rowKey \in job.seenRowKeys

\* lines 103-118: continue
ModulesSkipRow ==
  /\ AtModulesRow
  /\ modSkipped
  /\ job' = [job EXCEPT !.i = job.i + 1, !.counts.rowsRead = @ + 1, !.counts.skipped = @ + 1]
  /\ UNCHANGED <<Module, Student, Enrollment, Program, ProgramModule, started, faults,
                 attendanceSide>>

\* lines 103-137
ModulesUpsertModule ==
  LET existingModule == {m \in Module : m.code = modCode}
  IN  /\ AtModulesRow
      /\ ~modSkipped
      /\ Module' = moduleUpsertNamed(Module, modCode, modName)
      /\ job' = [job EXCEPT !.pc = "program",
                            !.seenRowKeys = @ \cup {rowKey},
                            !.counts.rowsRead = @ + 1,
                            !.counts.modulesCreated = IF existingModule = {} THEN @ + 1 ELSE @,
                            !.counts.modulesUpdated =
                               IF \E m \in existingModule : m.name # modName THEN @ + 1 ELSE @]
      /\ UNCHANGED <<Student, Enrollment, Program, ProgramModule, started, faults,
                     attendanceSide>>

\* lines 140-152
ModulesUpsertProgram ==
  LET existingProgram == programFindUnique(Program, modProgram)
  IN  /\ job.kind = "modules" /\ job.pc = "program"
      /\ Program' = IF existingProgram = {} THEN programCreate(Program, modProgram) ELSE Program
      /\ job' = [job EXCEPT !.pc = "link",
                            !.program = Some(CHOOSE r \in Program' : r.name = modProgram),
                            !.counts.programsCreated = IF existingProgram = {} THEN @ + 1 ELSE @]
      /\ UNCHANGED <<Module, Student, Enrollment, ProgramModule, started, faults,
                     attendanceSide>>

\* lines 155-173
ModulesLinkProgram ==
  LET existingLink == programModuleFindUnique(ProgramModule, Get(job.program).id, modCode)
  IN  /\ job.kind = "modules" /\ job.pc = "link"
      /\ ProgramModule' = IF existingLink = {}
                          THEN programModuleCreate(ProgramModule, Get(job.program).id, modCode)
                          ELSE ProgramModule
      /\ job' = [job EXCEPT !.pc = "row", !.i = job.i + 1,
                            !.counts.linksCreated = IF existingLink = {} THEN @ + 1 ELSE @]
      /\ UNCHANGED <<Module, Student, Enrollment, Program, started, faults, attendanceSide>>

\* lines 176-184
ModulesSucceed ==
  /\ job.kind = "modules" /\ job.pc = "row" /\ job.i > Len(Get(job.file).rows)
  /\ JobRespond([status |-> 200, ok |-> TRUE] @@ job.counts)
  /\ UNCHANGED <<Module, Student, Enrollment, Program, ProgramModule, started, faults,
                 attendanceSide>>

\* an awaited store call of the enrollment or module-master import throws
\* (enrollments line 130, modules line 185)
JobStorageError ==
  /\ \/ job.pc \in {"student", "enrollment", "program", "link"}
     \/ AtEnrollRow /\ ~enrSkipped(JobRow, JobInferred)
     \/ AtModulesRow /\ ~modSkipped
  /\ faults < MaxFaults
  /\ faults' = faults + 1
  /\ JobRespond(Error(500, "Can't reach database server"))
  /\ UNCHANGED <<Module, Student, Enrollment, Program, ProgramModule, started, attendanceSide>>

(***************************************************************************)
(* The three imports, one request at a time                                *)
(***************************************************************************)
MixedRequests ==
  { Req(Some("Spring"), Some("2026"), M1, FileStandup10),
    Req(Some("Summer"), Some("2026"), Some(" mn6000nu"), FileDup) }

NextImports ==
  \/ \E req \in MixedRequests : NoImportRunning /\ Receive("p1", req, MaxImports, TRUE)
  \/ LocalStep("p1")
  \/ StoreStep("p1")
  \/ StorageError("p1")
  \/ \E file \in EnrollFiles : EnrollReceive(file)
  \/ EnrollSkipRow
  \/ EnrollUpsertModule
  \/ EnrollUpsertStudent
  \/ EnrollUpsertEnrollment
  \/ EnrollSucceed
  \/ \E file \in ModuleFiles : ModulesReceive(file)
  \/ ModulesSkipRow
  \/ ModulesUpsertModule
  \/ ModulesUpsertProgram
  \/ ModulesLinkProgram
  \/ ModulesSucceed
  \/ JobStorageError

SpecImports == Init /\ [][NextImports]_vars

(***************************************************************************)
(* dashboard/page.tsx: what DashboardPage computes from the tables         *)
(***************************************************************************)
\* the division without the test of line 18: 0 / 0 is NaN
pctUnguarded(n, d) ==
  IF d = 0 THEN NaN
  ELSE Reduce([nan |-> FALSE, num |-> MathRound([nan |-> FALSE, num |-> n * 1000, scale |-> d]),
               scale |-> 10])

\* lines 17-20: a percentage with one decimal
pct(n, d) ==
  IF d = 0 THEN Num(0)
  ELSE Reduce([nan |-> FALSE, num |-> MathRound([nan |-> FALSE, num |-> n * 1000, scale |-> d]),
               scale |-> 10])

\* lines 59-63
CohortKey(r) == [moduleCode |-> r.moduleCode, intake |-> r.intake, year |-> r.year]

\* lines 65-67
cohortKeyString(k) ==
  k.moduleCode \o "|" \o k.intake \o "|" \o NumberToString(Num(k.year))

\* where: {moduleCode, intake, year} on Session
SessionsOf(k) == {r \in Session : CohortKey(r) = k}

\* lines 230-303 without a programme filter: the rows of the cohort summary
\* for module, intake and year k
cohortSummaryRows(k) ==
  LET enrollments == {e \in Enrollment :
                        /\ CohortKey(e) = k
                        /\ \E st \in Student :
                             st.id = e.studentId /\ isEligibleOf(st.email)}
      sessionsHeld == Cardinality(SessionsOf(k))
      attended(sid) == Cardinality({a \in Attendance :
                                      /\ a.isEligible /\ a.studentId = sid
                                      /\ \E r \in SessionsOf(k) : r.id = a.sessionId})
  IN  {[studentId |-> e.studentId, sessionsHeld |-> sessionsHeld,
        sessionsAttended |-> attended(e.studentId),
        attendancePct |-> pct(attended(e.studentId), sessionsHeld)] : e \in enrollments}

\* lines 338-466 without filters: the rows of the selected student's view.  Of
\* the cohorts with one key string the first met is kept (lines 369-378); which
\* one is met first is the order of the query, so each may be the one kept
selectedModuleRows(studentId) ==
  LET enrollments == {e \in Enrollment : e.studentId = studentId}
      kept(e) == {CohortKey(x) : x \in {y \in enrollments :
                     cohortKeyString(CohortKey(y)) = cohortKeyString(CohortKey(e))}}
      held(k) == Cardinality(SessionsOf(k))
      attended(k) == Cardinality({r \in SessionsOf(k) :
                                    \E a \in Attendance :
                                      /\ a.sessionId = r.id /\ a.studentId = studentId
                                      /\ a.isEligible})
  IN  UNION {{[moduleCode |-> e.moduleCode, intake |-> e.intake, year |-> e.year,
               sessionsHeld |-> held(k), sessionsAttended |-> attended(k),
               attendancePct |-> pct(attended(k), held(k))] : k \in kept(e)} :
             e \in enrollments}

(***************************************************************************)
(* parseMinutes on its own: a text is drawn, the function is applied       *)
(***************************************************************************)
ClockHours == {"0", "1", "9", "10", "23", "99"}

ClockMinutes == {"00", "02", "59", "75"}

ClockSeconds == {"00", "29", "30", "31", "59", "90"}

ClockTexts ==
  {h \o ":" \o m \o ":" \o sec : h \in ClockHours, m \in ClockMinutes, sec \in ClockSeconds}
    \cup {" 1:02:30 ", "\t0:00:00"}

UnitTexts ==
  {"2h 25m", "2h25m", "49m 21s", "1h", "55m", "0m", "0h 0m", "0s", "30s", "29s",
   "1H 5M", "10 min", "5m 2h", "1h 30s", "90s", "3 h 4 m 5 s", " 45m 0s ", "1h 0m"}

OtherTexts ==
  {"", "  ", "\t", "45:00", "abc", "n/a", "42", "0", " 7 ", "42.5", "41.49", "0.5",
   "-3", "-2.5", "1:2:3", "123:00:00", "1:02:30x", "1:02", "12.3.4", "4 2", "."}

DurationTexts == ClockTexts \cup UnitTexts \cup OtherTexts

InitParse ==
  /\ Module = {} /\ Session = {} /\ Student = {} /\ Attendance = {}
  /\ proc = [p \in Procs |-> IdleLocal]
  /\ log = <<>>
  /\ started = 0
  /\ faults = 0
  /\ arg \in DurationTexts
  /\ out = None
  /\ Enrollment = {} /\ Program = {} /\ ProgramModule = {}
  /\ job = IdleJob

\* parseMinutes(arg) returns
ApplyParseMinutes ==
  /\ out = None
  /\ out' = Some(parseMinutes(arg))
  /\ UNCHANGED <<tables, proc, log, started, faults, arg, masters>>

NextParse == ApplyParseMinutes

SpecParse == InitParse /\ [][NextParse]_vars

(***************************************************************************)
(* Properties                                                              *)
(***************************************************************************)
LogIdx == 1..Len(log)

Succeeded(e) == e.resp.status = 200

\* The request answered in this state.  A log entry holds the tables at its
\* response and never changes, so a property of single requests is stated of
\* the entry that has just been written.
Answered == {k \in LogIdx : k = Len(log) /\ proc["p1"].pc = "done"}

\* C1: under Spec, a successful import that is repeated at once leaves every
\* table as the first execution left it and answers with the same session id
\* and counts
C1_Idempotent ==
  \A k \in LogIdx :
    (k > 1 /\ Succeeded(log[k - 1]) /\ log[k].req = log[k - 1].req)
      => /\ log[k].db = log[k - 1].db
         /\ log[k].db = log[k].db0
         /\ log[k].resp = log[k - 1].resp

\* a file with several rows, imported twice into a store that already had rows
C1_Witness ==
  \E k \in LogIdx :
    /\ k > 1 /\ Succeeded(log[k - 1]) /\ log[k].req = log[k - 1].req
    /\ Succeeded(log[k]) /\ log[k].resp.rowsRead >= 2
    /\ Get(log[k - 1].db0).Attendance # {}
    /\ Get(log[k - 1].db) # Get(log[k - 1].db0)

HasSection2Marker(lines) == \E k \in 1..Len(lines) : Trim(lines[k]) = "2. Participants"

\* C2: a file without a "2. Participants" line is answered with 400 and the
\* four tables are after the request what they were before it
C2_NoMarkerNoWrites ==
  \A k \in LogIdx :
    (log[k].valid /\ ~HasSection2Marker(log[k].lines))
      => log[k].resp.status = 400 /\ log[k].db = log[k].db0

\* no header row between the "2. Participants" line and the end of its window
NoHeaderInWindow(lines) ==
  ~\E i \in (idxSection2Of(lines) + 1)..(section2EndOf(lines) - 1) :
      IsHeaderLine(Line(lines, i))

LacksRequiredColumn(lines) ==
  \E c \in {"Name", "Email", "In-Meeting Duration"} : colIndex(headerOf(lines), c) = -1

\* C3: with the marker present but the header row missing from the window, or
\* a required column missing from the header, the answer is 400 and no table
\* was written before it
C3_BadHeaderNoWrites ==
  \A k \in LogIdx :
    (/\ log[k].valid
     /\ HasSection2Marker(log[k].lines)
     /\ (NoHeaderInWindow(log[k].lines) \/ LacksRequiredColumn(log[k].lines)))
      => log[k].resp.status = 400 /\ log[k].db = log[k].db0

InvalidForm(req) ==
  \/ Trim(OrElse(req.intake, "")) = ""
  \/ JsNumber(OrElse(req.year, "")).nan
  \/ JsNumber(OrElse(req.year, "")).num = 0
  \/ ~IsSome(req.file)
  \/ /\ Trim(OrElse(req.moduleCode, "")) = ""
     /\ ~IsSome(parseModuleCodeFromFilename(Get(req.file).name))

\* C4: an empty intake, a missing, zero or non-numeric year, a missing file or
\* an unresolvable module code is answered with 400 before the file is decoded
\* and without a write to any table
C4_InvalidFormRejected ==
  \A k \in Answered :
    InvalidForm(log[k].req)
      => /\ log[k].resp.status = 400
         /\ ~log[k].valid
         /\ log[k].db = log[k].db0

\* every kind of invalid form has been answered, at least once with rows in the store
C4_Witness ==
  /\ \E k \in LogIdx : ~IsSome(log[k].req.file) /\ log[k].resp.status = 400
  /\ \E k \in LogIdx :
       /\ JsNumber(OrElse(log[k].req.year, "")).num = 0
       /\ log[k].resp.status = 400
       /\ Get(log[k].db).Session # {}

Intakes == {"Spring", "Summer", "Autumn"}

\* C5: an intake that does not normalize to Spring, Summer or Autumn is rejected
\* with 400, and every stored Session.intake is one of the three
C5_IntakeIsKnown ==
  /\ \A k \in LogIdx :
       normIntake(OrElse(log[k].req.intake, "")) \notin Intakes => log[k].resp.status = 400
  /\ \A r \in Session : r.intake \in Intakes

IsPositiveInteger(text) ==
  LET n == JsNumber(text) IN Trim(text) # "" /\ IsInteger(n) /\ n.num > 0

\* C6: a year that is not a positive integer is rejected with 400, and every
\* stored Session.year is a positive integer
C6_YearIsPositiveInteger ==
  /\ \A k \in LogIdx :
       ~IsPositiveInteger(OrElse(log[k].req.year, "")) => log[k].resp.status = 400
  /\ \A r \in Session : r.year > 0

SameCohort(a, b) ==
  a.tuple[1] = b.tuple[1] /\ a.tuple[2] = b.tuple[2] /\ a.tuple[3] = b.tuple[3]

DifferentStart(a, b) ==
  IsSome(a.tuple[4]) /\ IsSome(b.tuple[4]) /\ a.tuple[4] # b.tuple[4]

RowsOf(T, sid) == {r \in T : r.sessionId = sid}

\* C7: under Spec, two successful imports of one cohort with different parsed
\* start times have different session keys and different Session rows, and the
\* later one, run right after the earlier, leaves the earlier one's Session row
\* and that Session's attendance rows as they were
C7_DistinctSessions ==
  \A j, k \in LogIdx :
    (/\ j < k /\ Succeeded(log[j]) /\ Succeeded(log[k])
     /\ SameCohort(log[j], log[k]) /\ DifferentStart(log[j], log[k]))
      => /\ log[j].sessionKey # log[k].sessionKey
         /\ log[j].resp.sessionId # log[k].resp.sessionId
         /\ \E r \in Session : r.id = log[j].resp.sessionId /\ r.sessionKey = log[j].sessionKey
         /\ \E r \in Session : r.id = log[k].resp.sessionId /\ r.sessionKey = log[k].sessionKey
         /\ k = j + 1 =>
              /\ {r \in Get(log[k].db).Session : r.id = log[j].resp.sessionId}
                   = {r \in Get(log[j].db).Session : r.id = log[j].resp.sessionId}
              /\ RowsOf(Get(log[k].db).Attendance, log[j].resp.sessionId)
                   = RowsOf(Get(log[j].db).Attendance, log[j].resp.sessionId)

\* the 09:00 and the 10:00 stand-up were imported one after the other
C7_Witness ==
  \E k \in LogIdx :
    /\ k > 1 /\ Succeeded(log[k - 1]) /\ Succeeded(log[k])
    /\ SameCohort(log[k - 1], log[k]) /\ DifferentStart(log[k - 1], log[k])
    /\ RowsOf(Attendance, log[k].resp.sessionId) # {}
    /\ RowsOf(Attendance, log[k - 1].resp.sessionId) # {}

LowerTuple(t) ==
  <<ToLowerCase(t[1]), t[2], ToLowerCase(t[3]), t[4], t[5], ToLowerCase(OrElse(t[6], ""))>>

\* C8: two imports that pass validation and whose tuples (intake, year, module
\* code, start, end, title) differ after lower-casing have different session
\* keys, and when both succeed, different Session rows
C8_KeyInjective ==
  \A j, k \in LogIdx :
    (/\ j < k /\ log[j].valid /\ log[k].valid
     /\ LowerTuple(log[j].tuple) # LowerTuple(log[k].tuple))
      => /\ log[j].sessionKey # log[k].sessionKey
         /\ (Succeeded(log[j]) /\ Succeeded(log[k]))
              => log[j].resp.sessionId # log[k].resp.sessionId

\* C9: under SpecConc, in every state no two Session rows share a sessionKey,
\* no two Student rows an email, no two Attendance rows a (sessionId, studentId)
C9_UniqueKeys ==
  /\ \A a, b \in Session : a.sessionKey = b.sessionKey => a = b
  /\ \A a, b \in Student : a.email = b.email => a = b
  /\ \A a, b \in Attendance :
       (a.sessionId = b.sessionId /\ a.studentId = b.studentId) => a = b

\* two requests with one session key have both written attendance and a store
\* call of one of them has thrown after its first rows
C9_Witness ==
  /\ proc["p1"].sessionKey = proc["p2"].sessionKey
  /\ proc["p1"].attendanceUpserted >= 1
  /\ proc["p2"].attendanceUpserted >= 1
  /\ \E k \in LogIdx : log[k].resp.status = 500
  /\ proc["p2"].pc = "attendance"

\* data rows of the Section 2 window of a decoded file, as 0-based line indexes
DataRows(lines) ==
  {i \in (headerIndexOf(lines) + 1)..(section2EndOf(lines) - 1) : IsDataRow(Line(lines, i))}

EmailAt(lines, i) ==
  ToLowerCase(Trim(At0(Split(Line(lines, i), "\t"), colIndex(headerOf(lines), "Email"))))

IdentityAt(lines, i) ==
  IF EmailAt(lines, i) # "" THEN EmailAt(lines, i) ELSE placeholderEmail(i)

Least(S) == CHOOSE i \in S : \A j \in S : i <= j

LineIdx(lines) == 0..(Len(lines) - 1)

\* first "2. Participants" line, or -1
MarkerIdx(lines) ==
  LET S == {i \in LineIdx(lines) : Trim(Line(lines, i)) = "2. Participants"}
  IN  IF S = {} THEN -1 ELSE Least(S)

\* first "3. In-Meeting Activities" line after line m, or the number of lines
Section3After(lines, m) ==
  LET S == {i \in (m + 1)..(Len(lines) - 1) : IsSection3Marker(Line(lines, i))}
  IN  IF S = {} THEN Len(lines) ELSE Least(S)

\* first header row after line m, or -1
HeaderAfter(lines, m) ==
  LET S == {i \in (m + 1)..(Len(lines) - 1) : IsHeaderLine(Line(lines, i))}
  IN  IF S = {} THEN -1 ELSE Least(S)

\* 0-based position of c among the trimmed cells of the header row, or -1
ColumnIn(header, c) ==
  LET S == {k \in 1..Len(header) : Trim(header[k]) = c}
  IN  IF S = {} THEN -1 ELSE Least(S) - 1

\* The file as the claims read it: marker, Section 3 and header row, whether
\* the header row lies in the window, the columns, and the rows of the window
\* (the lines strictly between header row and Section 3 that are not blank and
\* hold a tab) with their cells, email and identity
Layout(lines) ==
  LET m      == MarkerIdx(lines)
      s3     == Section3After(lines, m)
      h      == HeaderAfter(lines, m)
      ok     == m # -1 /\ h # -1 /\ h < s3
      header == IF ok THEN Split(Line(lines, h), "\t") ELSE <<>>
      cEmail == ColumnIn(header, "Email")
      rows   == IF ok
                THEN {i \in (h + 1)..(s3 - 1) :
                        Trim(Line(lines, i)) # "" /\ Includes(Line(lines, i), "\t")}
                ELSE {}
      cells  == [i \in rows |-> Split(Line(lines, i), "\t")]
      raw    == [i \in rows |-> Trim(At0(cells[i], cEmail))]
      email  == [i \in rows |-> ToLowerCase(raw[i])]
  IN  [marker |-> m, section3 |-> s3, header |-> h, ok |-> ok,
       window |-> IF ok THEN (h + 1)..(s3 - 1) ELSE {},
       cName |-> ColumnIn(header, "Name"), cEmail |-> cEmail,
       cDuration |-> ColumnIn(header, "In-Meeting Duration"),
       cFirstJoin |-> ColumnIn(header, "First Join"),
       cLastLeave |-> ColumnIn(header, "Last Leave"),
       cRole |-> ColumnIn(header, "Role"),
       rows |-> rows, cells |-> cells, raw |-> raw, email |-> email,
       identity |-> [i \in rows |->
                       IF email[i] # "" THEN email[i]
                       ELSE "unknown-" \o NatToString(i) \o "@invalid.local"]]

\* the file has marker, header row in the window and the required columns
WellFormed(L) == L.ok /\ L.cName # -1 /\ L.cEmail # -1 /\ L.cDuration # -1

\* a request that passed the form checks with a year the column can hold
Admitted(e) == e.valid /\ IsInteger(e.tuple[2])

\* the Attendance rows of session sid on the Student with this email
AttendanceOf(db, sid, email) ==
  {r \in db.Attendance :
     r.sessionId = sid /\ \E st \in db.Student : st.id = r.studentId /\ st.email = email}

\* the rows of the window without an email
Emailless(L) == {i \in L.rows : L.email[i] = ""}

\* the Attendance rows of session sid whose Student has the email of line i's placeholder
PlaceholderAttendance(db, sid, i) ==
  AttendanceOf(db, sid, "unknown-" \o NatToString(i) \o "@invalid.local")

IsPlaceholder(email) == StartsWith(email, "unknown-") /\ EndsWith(email, "@invalid.local")

\* C11: in every state of Spec a placeholder Student has attendance in at most
\* one session: the emailless rows of two files are never on one Student
C11_PlaceholderUnique ==
  \A st \in Student :
    IsPlaceholder(st.email)
      => Cardinality({r.sessionId : r \in {a \in Attendance : a.studentId = st.id}}) <= 1

IsEligibleEmail(email) == EndsWith(email, "@stu.nexteducationgroup.com")

\* C12: after a successful import every row of the window has an Attendance
\* row in the session whose isEligible is TRUE exactly when the row's trimmed,
\* lower-cased email ends with "@stu.nexteducationgroup.com", and eligibleCount
\* is the number of such rows
C12_Eligibility ==
  \A k \in Answered :
    Succeeded(log[k]) =>
      LET L  == Layout(log[k].lines)
          db == Get(log[k].db)
      IN  /\ \A i \in L.rows :
               /\ AttendanceOf(db, log[k].resp.sessionId, L.identity[i]) # {}
               /\ \A r \in AttendanceOf(db, log[k].resp.sessionId, L.identity[i]) :
                    r.isEligible = IsEligibleEmail(L.email[i])
          /\ log[k].resp.eligibleCount
               = Cardinality({i \in L.rows : IsEligibleEmail(L.email[i])})

\* an import with an eligible email in capitals, another domain and an empty email
C12_Witness ==
  \E k \in Answered :
    /\ Succeeded(log[k])
    /\ log[k].resp.eligibleCount >= 1
    /\ LET L == Layout(log[k].lines)
       IN  /\ \E i \in L.rows : IsEligibleEmail(L.email[i]) /\ ~IsEligibleEmail(L.raw[i])
           /\ \E i \in L.rows : L.email[i] # "" /\ ~IsEligibleEmail(L.email[i])
           /\ \E i \in L.rows : L.email[i] = ""

\* C13: a well-formed file whose window holds no row is answered with ok,
\* rowsRead = 0, attendanceUpserted = 0, and Student and Attendance are after
\* the request what they were before it
C13_EmptyWindowOk ==
  \A k \in Answered :
    Admitted(log[k]) =>
      LET L == Layout(log[k].lines)
      IN  (WellFormed(L) /\ L.rows = {})
            => /\ Succeeded(log[k])
               /\ log[k].resp.ok
               /\ log[k].resp.rowsRead = 0
               /\ log[k].resp.attendanceUpserted = 0
               /\ Get(log[k].db).Student = Get(log[k].db0).Student
               /\ Get(log[k].db).Attendance = Get(log[k].db0).Attendance

\* a file with blank lines up to Section 3 and rows after it was imported into
\* a store that holds students
C13_Witness ==
  \E k \in Answered :
    /\ Succeeded(log[k])
    /\ log[k].resp.rowsRead = 0
    /\ Get(log[k].db0).Student # {}
    /\ LET L == Layout(log[k].lines)
       IN  /\ WellFormed(L) /\ L.rows = {} /\ L.window # {}
           /\ L.section3 < Len(log[k].lines) - 1

\* C14: every Student and Attendance row a request adds or changes belongs to a
\* row of the window, a successful import reads exactly the window's rows, and
\* a file whose header row lies only at or after Section 3 is answered with 400
\* without a Student or Attendance write
C14_OnlyWindowRows ==
  \A k \in Answered :
    log[k].valid =>
      LET L   == Layout(log[k].lines)
          db0 == Get(log[k].db0)
          db  == Get(log[k].db)
      IN  /\ \A st \in db.Student \ db0.Student : \E i \in L.rows : st.email = L.identity[i]
          /\ \A r \in db.Attendance \ db0.Attendance :
               \E i \in L.rows :
                 /\ r \in AttendanceOf(db, r.sessionId, L.identity[i])
                 /\ r.emailRaw = L.raw[i]
          /\ Succeeded(log[k]) => L.ok /\ log[k].resp.rowsRead = Cardinality(L.rows)
          /\ (L.marker # -1 /\ ~L.ok) =>
               /\ log[k].resp.status = 400
               /\ db.Student = db0.Student
               /\ db.Attendance = db0.Attendance

\* an import with tab-separated lines before the marker and after Section 3
\* has written its window's rows, after a file with its header row behind
\* Section 3 had been refused
C14_Witness ==
  /\ \E k \in Answered :
       /\ Succeeded(log[k]) /\ log[k].resp.rowsRead >= 2
       /\ LET L == Layout(log[k].lines)
          IN  /\ \E i \in LineIdx(log[k].lines) :
                   i < L.marker /\ Includes(Line(log[k].lines, i), "\t")
              /\ \E i \in LineIdx(log[k].lines) :
                   i > L.section3 + 1 /\ Includes(Line(log[k].lines, i), "\t")
  /\ \E k \in LogIdx :
       /\ log[k].valid /\ log[k].resp.status = 400
       /\ LET L == Layout(log[k].lines)
          IN  L.marker # -1 /\ L.header > L.section3

\* no later row of the window has the identity of row i
LastOfIdentity(L, i) == \A j \in L.rows : j > i => L.identity[j] # L.identity[i]

\* text that is no timestamp
NoTimestamp(v) == ~(IsoShape(Trim(v)) /\ ValidDate(DateFields(Trim(v))))

\* C18: a well-formed file is answered with success whatever its cells hold;
\* every row is read and written, and the Attendance row of a row has minutes
\* null when its duration is no duration, firstJoin / lastLeave null when the
\* cell is no timestamp or the column is absent, role null when the Role
\* column is absent
C18_RowsDegradeToNull ==
  \A k \in Answered :
    Admitted(log[k]) =>
      LET L   == Layout(log[k].lines)
          db  == Get(log[k].db)
          sid == log[k].resp.sessionId
      IN  WellFormed(L) =>
            /\ Succeeded(log[k])
            /\ log[k].resp.rowsRead = Cardinality(L.rows)
            /\ log[k].resp.attendanceUpserted = Cardinality(L.rows)
            /\ \A i \in L.rows :
                 /\ Cardinality(AttendanceOf(db, sid, L.identity[i])) = 1
                 /\ LastOfIdentity(L, i) =>
                      \A r \in AttendanceOf(db, sid, L.identity[i]) :
                        /\ r.minutes = parseMinutes(At0(L.cells[i], L.cDuration))
                        /\ (L.cFirstJoin = -1 \/ NoTimestamp(At0(L.cells[i], L.cFirstJoin)))
                             => r.firstJoin = None
                        /\ (L.cLastLeave = -1 \/ NoTimestamp(At0(L.cells[i], L.cLastLeave)))
                             => r.lastLeave = None
                        /\ L.cRole = -1 => r.role = None

\* a row whose duration is no duration, between two other rows and under a
\* header without the optional columns, has been written with minutes null,
\* after a row whose Last Leave is no timestamp had been written with
\* lastLeave null
C18_Witness ==
  /\ \E k \in Answered :
       /\ Succeeded(log[k]) /\ log[k].resp.rowsRead >= 3
       /\ LET L  == Layout(log[k].lines)
              db == Get(log[k].db)
          IN  /\ L.cFirstJoin = -1 /\ L.cRole = -1
              /\ \E i \in L.rows :
                   /\ Trim(At0(L.cells[i], L.cDuration)) # ""
                   /\ \E r \in AttendanceOf(db, log[k].resp.sessionId, L.identity[i]) :
                        r.minutes = None /\ r.firstJoin = None /\ r.role = None
                   /\ \E a, b \in L.rows :
                        /\ a < i /\ i < b
                        /\ \E r \in AttendanceOf(db, log[k].resp.sessionId, L.identity[b]) :
                             r.minutes # None
  /\ \E k \in LogIdx :
       /\ Succeeded(log[k]) /\ log[k].resp.rowsRead >= 3
       /\ LET L == Layout(log[k].lines)
          IN  /\ L.cLastLeave # -1
              /\ \E i \in L.rows :
                   /\ Trim(At0(L.cells[i], L.cLastLeave)) # ""
                   /\ \E r \in AttendanceOf(Get(log[k].db), log[k].resp.sessionId,
                                            L.identity[i]) :
                        r.lastLeave = None /\ r.firstJoin # None

\* the upper-cased first two letters + four digits + "NU" of the file name, or ""
CodeInName(name) ==
  LET S == {i \in 1..Len(name) : ModuleCodeAt(name, i)}
  IN  IF S = {} THEN "" ELSE ToUpperCase(SubSeq(name, Least(S), Least(S) + 7))

ExpectedCode(req) ==
  LET form == Trim(OrElse(req.moduleCode, ""))
  IN  IF form # "" THEN ToUpperCase(form) ELSE CodeInName(Get(req.file).name)

\* C19: a request that passes the form checks resolves its module code to the
\* trimmed, upper-cased form field when that is not empty and to the first code
\* of the file name otherwise; a successful response echoes that code, and the
\* Session row of the response's id is stored under it
C19_ModuleCodeResolution ==
  \A k \in Answered :
    log[k].valid =>
      LET code == ExpectedCode(log[k].req)
      IN  /\ log[k].tuple[3] = code
          /\ Succeeded(log[k]) =>
               /\ log[k].resp.moduleCode = code
               /\ \E r \in Get(log[k].db).Session :
                    r.id = log[k].resp.sessionId /\ r.moduleCode = code

\* one import took the first code of its file name, after another had taken
\* the code of its form field although the file name holds another
C19_Witness ==
  /\ \E k \in Answered :
       /\ Succeeded(log[k])
       /\ Trim(OrElse(log[k].req.moduleCode, "")) = ""
       /\ log[k].resp.moduleCode = "MN5070NU"
  /\ \E k \in LogIdx :
       /\ Succeeded(log[k])
       /\ Trim(OrElse(log[k].req.moduleCode, "")) # ""
       /\ CodeInName(Get(log[k].req.file).name) \notin {"", log[k].resp.moduleCode}

(***************************************************************************)
(* Requests in flight together (SpecConc)                                  *)
(***************************************************************************)
\* no request is in flight and no store call has thrown
Settled == faults = 0 /\ \A p \in Procs : proc[p].pc \in {"idle", "done"}

\* the answered requests that resolved to this session key
WithKey(key) == {k \in LogIdx : log[k].valid /\ log[k].sessionKey = key}

\* the Session columns request e writes
MetadataOf(e) ==
  [moduleCode |-> e.tuple[3], meetingName |-> e.tuple[6], startTime |-> e.tuple[4],
   endTime |-> e.tuple[5], durationMin |-> e.resp.durationMin, intake |-> e.tuple[1],
   year |-> e.tuple[2].num]

\* the Attendance columns the row i of a file writes
RowData(L, i) ==
  [emailRaw |-> L.raw[i],
   firstJoin |-> IF L.cFirstJoin = -1 THEN None ELSE parseDate(At0(L.cells[i], L.cFirstJoin)),
   lastLeave |-> IF L.cLastLeave = -1 THEN None ELSE parseDate(At0(L.cells[i], L.cLastLeave)),
   minutes |-> parseMinutes(At0(L.cells[i], L.cDuration)),
   role |-> IF L.cRole = -1 \/ Trim(At0(L.cells[i], L.cRole)) = "" THEN None
            ELSE Some(Trim(At0(L.cells[i], L.cRole))),
   isEligible |-> IsEligibleEmail(L.email[i])]

Columns(r, names) == [c \in names |-> r[c]]

\* C20: under SpecConc, once two or more requests that resolved to one session
\* key have been answered (well-formed files, no store call thrown), in whatever
\* order their store calls ran: one Session row has the key, every request
\* succeeded with that row's id, the row's columns are those of one request,
\* and every student of any of the files has one Attendance row in the
\* session whose columns are those of one row of one file
C20_SameKeyRace ==
  Settled =>
    \A key \in {log[k].sessionKey : k \in {j \in LogIdx : log[j].valid}} :
      LET E  == WithKey(key)
          Ls == [k \in E |-> Layout(log[k].lines)]
          S  == {r \in Session : r.sessionKey = key}
      IN  (Cardinality(E) >= 2 /\ \A k \in E : WellFormed(Ls[k])) =>
            /\ Cardinality(S) = 1
            /\ \A k \in E : Succeeded(log[k]) /\ \A r \in S : log[k].resp.sessionId = r.id
            /\ \A r \in S : \E k \in E :
                 Columns(r, DOMAIN MetadataOf(log[k])) = MetadataOf(log[k])
            /\ \A r \in S : \A k \in E : \A i \in Ls[k].rows :
                 LET A == AttendanceOf(Tables, r.id, Ls[k].identity[i])
                 IN  /\ Cardinality(A) = 1
                     /\ \A a \in A : \E k2 \in E : \E i2 \in Ls[k2].rows :
                          /\ Ls[k2].identity[i2] = Ls[k].identity[i]
                          /\ Columns(a, DOMAIN RowData(Ls[k2], i2)) = RowData(Ls[k2], i2)

\* two requests with one key and different files have been answered; the
\* Session row is as the one request wrote it and a student's Attendance row
\* as the other did: the one wrote the Session first and the row last
C20_Witness ==
  /\ Settled
  /\ \E j, k \in LogIdx :
       /\ j # k /\ log[j].p # log[k].p
       /\ Succeeded(log[j]) /\ Succeeded(log[k])
       /\ log[j].sessionKey = log[k].sessionKey
       /\ log[j].req.file # log[k].req.file
       /\ \E r \in Session :
            /\ r.id = log[k].resp.sessionId
            /\ r.durationMin = log[k].resp.durationMin
            /\ r.durationMin # log[j].resp.durationMin
            /\ \E a \in AttendanceOf(Tables, r.id, "eve@stu.nexteducationgroup.com") :
                 a.minutes = Some(20)

(***************************************************************************)
(* parseMinutes (SpecParse)                                                *)
(***************************************************************************)
Returned == IsSome(out)

Result == Get(out)

\* one or two digits, ":", two digits, ":", two digits
IsClockText(t) ==
  /\ Len(t) \in {7, 8}
  /\ Ch(t, Len(t) - 2) = ":" /\ Ch(t, Len(t) - 5) = ":"
  /\ \A i \in 1..Len(t) : i \notin {Len(t) - 2, Len(t) - 5} => IsDigit(Ch(t, i))

ClockH(t) == DigitsVal(SubSeq(t, 1, Len(t) - 6), 0)

ClockM(t) == DigitsVal(SubSeq(t, Len(t) - 4, Len(t) - 3), 0)

ClockS(t) == DigitsVal(SubSeq(t, Len(t) - 1, Len(t)), 0)

\* C15: for every text of the clock shape H:MM:SS or HH:MM:SS, parseMinutes
\* returns H*60 + MM + floor((SS + 30) / 60), never null
C15_ClockMinutes ==
  (Returned /\ IsClockText(Trim(arg)))
    => Result = Some(ClockH(Trim(arg)) * 60 + ClockM(Trim(arg))
                       + (ClockS(Trim(arg)) + 30) \div 60)

\* "1:02:30" has given 63
C15_Witness == arg = "1:02:30" /\ out = Some(Some(63))

HasUnit(t) == \E u \in {"h", "m", "s"} : IsSome(UnitMatch(t, u))

\* the sum of the units in seconds, a unit that does not occur counting 0
UnitSeconds(t) ==
  OrElse(UnitMatch(t, "h"), 0) * 3600 + OrElse(UnitMatch(t, "m"), 0) * 60
    + OrElse(UnitMatch(t, "s"), 0)

\* C16: for every text that is not of the clock shape and in which a number
\* followed by h, m or s occurs, parseMinutes returns the sum of the units
\* rounded to the nearest minute, also when that sum is zero
C16_UnitMinutes ==
  (Returned /\ ~IsClockText(Trim(arg)) /\ HasUnit(Trim(arg)))
    => Result = Some((UnitSeconds(Trim(arg)) + 30) \div 60)

IsDecimalBody(t) ==
  /\ \E i \in 1..Len(t) : IsDigit(Ch(t, i))
  /\ \A i \in 1..Len(t) : IsDigit(Ch(t, i)) \/ Ch(t, i) = "."
  /\ Cardinality({i \in 1..Len(t) : Ch(t, i) = "."}) <= 1

\* a bare decimal number: optional sign, digits, at most one point
IsBareDecimal(t) ==
  /\ t # ""
  /\ IF Ch(t, 1) \in {"-", "+"} THEN IsDecimalBody(Rest(t)) ELSE IsDecimalBody(t)

\* the nearest integer of a bare decimal, halves towards plus infinity
NearestInteger(t) ==
  LET neg  == Ch(t, 1) = "-"
      body == IF Ch(t, 1) \in {"-", "+"} THEN Rest(t) ELSE t
      dot  == IndexOf(body, ".")
      ip   == IF dot = 0 THEN body ELSE SubSeq(body, 1, dot - 1)
      fp   == IF dot = 0 THEN "" ELSE SubSeq(body, dot + 1, Len(body))
      whole == IF ip = "" THEN 0 ELSE DigitsVal(ip, 0)
      \* the fraction is 0, below, at, or above one half
      zero  == \A i \in 1..Len(fp) : Ch(fp, i) = "0"
      half  == fp # "" /\ Ch(fp, 1) = "5" /\ \A i \in 2..Len(fp) : Ch(fp, i) = "0"
      above == fp # "" /\ DigitVal(Ch(fp, 1)) >= 5 /\ ~half
  IN  IF ~neg THEN whole + (IF half \/ above THEN 1 ELSE 0)
      ELSE 0 - (whole + (IF above THEN 1 ELSE 0))

HeldBefore(e) == {r \in Get(e.db0).Session : r.sessionKey = e.sessionKey}

\* the emails of the file's rows
Identities(L) == {L.identity[i] : i \in L.rows}

\* the Attendance rows of session sid on students the file does not name
OfAbsent(db, sid, L) ==
  {a \in db.Attendance :
     /\ a.sessionId = sid
     /\ \A st \in db.Student : st.id = a.studentId => st.email \notin Identities(L)}

\* C24: under Spec, a successful import whose session key a Session row
\* already has leaves one row with that key, with the id it had, holding the
\* new upload's meetingName, startTime, endTime, durationMin, intake, year and
\* moduleCode; the response carries that id; and the Attendance rows of the
\* session on students the file does not name are as they were
C24_SessionOverwritten ==
  \A k \in Answered :
    Succeeded(log[k]) =>
      \A r0 \in HeldBefore(log[k]) :
        LET db0 == Get(log[k].db0)
            db  == Get(log[k].db)
            L   == Layout(log[k].lines)
            S   == {r \in db.Session : r.sessionKey = log[k].sessionKey}
        IN  /\ Cardinality(S) = 1
            /\ \A r \in S :
                 /\ r.id = r0.id
                 /\ Columns(r, DOMAIN MetadataOf(log[k])) = MetadataOf(log[k])
            /\ log[k].resp.sessionId = r0.id
            /\ {r.id : r \in db.Session} = {r.id : r \in db0.Session}
            /\ OfAbsent(db, r0.id, L) = OfAbsent(db0, r0.id, L)

\* an import has changed title and duration of a Session that held the
\* attendance of a student the file does not name
C24_Witness ==
  \E k \in Answered :
    /\ Succeeded(log[k])
    /\ \E r0 \in HeldBefore(log[k]) :
         /\ r0.meetingName # log[k].tuple[6]
         /\ r0.durationMin # log[k].resp.durationMin
         /\ OfAbsent(Get(log[k].db0), r0.id, Layout(log[k].lines)) # {}
         /\ \E r \in Get(log[k].db).Session :
              r.id = r0.id /\ r.meetingName = log[k].tuple[6]

\* C25: under Spec, after a successful import every student of the window
\* has one Attendance row in the session, and its emailRaw, firstJoin,
\* lastLeave, minutes, role and isEligible are those of the last row of the
\* file with that student: a row met again, in the file or in a later import
\* of it, replaces the values, and minutes are not added up
C25_LastRowWins ==
  \A k \in Answered :
    Succeeded(log[k]) =>
      LET L   == Layout(log[k].lines)
          db  == Get(log[k].db)
          sid == log[k].resp.sessionId
      IN  \A i \in L.rows :
            LastOfIdentity(L, i) =>
              LET A == AttendanceOf(db, sid, L.identity[i])
              IN  /\ Cardinality(A) = 1
                  /\ \A a \in A : Columns(a, DOMAIN RowData(L, i)) = RowData(L, i)

\* a file that holds a student twice, with different minutes, has been
\* imported a second time, and the student's row holds the minutes of the
\* second of the two rows
C25_Witness ==
  \E k \in Answered :
    /\ k > 1 /\ Succeeded(log[k - 1]) /\ Succeeded(log[k])
    /\ log[k].req = log[k - 1].req
    /\ LET L == Layout(log[k].lines)
       IN  \E i, j \in L.rows :
             /\ i < j /\ L.identity[i] = L.identity[j] /\ LastOfIdentity(L, j)
             /\ RowData(L, i).minutes # RowData(L, j).minutes
             /\ IsSome(RowData(L, i).minutes)
             /\ \E a \in AttendanceOf(Get(log[k].db), log[k].resp.sessionId, L.identity[j]) :
                  a.minutes = RowData(L, j).minutes

\* the Attendance rows of session sid on the students the file names: the rows
\* the request's attendance upserts created or updated
WrittenRows(db, sid, L) ==
  {a \in db.Attendance :
     /\ a.sessionId = sid
     /\ \E st \in db.Student : st.id = a.studentId /\ st.email \in Identities(L)}

\* no student occurs in two rows of the window
NoRepeatedIdentity(L) == \A i, j \in L.rows : i # j => L.identity[i] # L.identity[j]

\* C29: under Spec, in every successful response rowsRead = attendanceUpserted
\* and eligibleCount <= rowsRead; the Attendance rows of the returned session
\* the request created or updated are at most attendanceUpserted, and as many
\* exactly when no student occurs in two rows of the file
C29_Counters ==
  \A k \in Answered :
    Succeeded(log[k]) =>
      LET L == Layout(log[k].lines)
          n == Cardinality(WrittenRows(Get(log[k].db), log[k].resp.sessionId, L))
      IN  /\ log[k].resp.rowsRead = log[k].resp.attendanceUpserted
          /\ log[k].resp.eligibleCount <= log[k].resp.rowsRead
          /\ n <= log[k].resp.attendanceUpserted
          /\ (n = log[k].resp.attendanceUpserted) <=> NoRepeatedIdentity(L)

\* an import of a file that names a student twice has answered with more
\* upserts than it wrote rows, after an import of three rows of three
\* students, one of them eligible
C29_Witness ==
  /\ \E k \in Answered :
       /\ Succeeded(log[k])
       /\ ~NoRepeatedIdentity(Layout(log[k].lines))
       /\ log[k].resp.attendanceUpserted = 2
       /\ Cardinality(WrittenRows(Get(log[k].db), log[k].resp.sessionId,
                                  Layout(log[k].lines))) = 1
  /\ \E k \in LogIdx :
       /\ Succeeded(log[k])
       /\ NoRepeatedIdentity(Layout(log[k].lines))
       /\ log[k].resp.rowsRead = 3 /\ log[k].resp.eligibleCount = 1

(***************************************************************************)
(* The store calls of one import, in the order of the handler              *)
(***************************************************************************)
\* the Session columns request e writes
SessionData(e) ==
  [moduleCode |-> e.tuple[3], meetingName |-> e.tuple[6], startTime |-> e.tuple[4],
   endTime |-> e.tuple[5], durationMin |-> e.durationMin, intake |-> e.tuple[1],
   year |-> e.tuple[2].num]

\* the trimmed Name cell of row i, null when empty
NameOf(L, i) ==
  IF Trim(At0(L.cells[i], L.cName)) = "" THEN None ELSE Some(Trim(At0(L.cells[i], L.cName)))

\* db after the module and session upserts of request e
WithSession(db, e) ==
  [db EXCEPT !.Module = moduleUpsert(@, e.tuple[3]),
             !.Session = sessionUpsert(@, e.sessionKey, SessionData(e))]

\* db after the student upsert of row i
WithStudent(db, L, i) ==
  [db EXCEPT !.Student = studentUpsert(@, L.identity[i], NameOf(L, i))]

\* db after the student and attendance upserts of row i
WithRow(db, sid, L, i) ==
  LET d == WithStudent(db, L, i)
  IN  [d EXCEPT !.Attendance =
         attendanceUpsert(@, sid, studentByEmail(d.Student, L.identity[i]).id, RowData(L, i))]

Greatest(S) == CHOOSE i \in S : \A j \in S : j <= i

\* db after the upserts of the rows in file order
RECURSIVE WithRows(_, _, _, _)
WithRows(db, sid, L, rows) ==
  IF rows = {} THEN db
  ELSE WithRow(WithRows(db, sid, L, rows \ {Greatest(rows)}), sid, L, Greatest(rows))

\* db after the store calls of request e up to, not including, row k
ImportedUpTo(db, e, k) ==
  LET L == Layout(e.lines)
      d == WithSession(db, e)
  IN  WithRows(d, sessionByKey(d.Session, e.sessionKey).id, L, {i \in L.rows : i < k})

\* db after all store calls of request e: an import no call of which throws
Uninterrupted(db, e) == ImportedUpTo(db, e, Len(e.lines))

\* a store call of request e threw at a participant row
FailedAtRow(e) == e.resp.status = 500 /\ e.at \in {"loop", "attendance"}

\* C22: under SpecRetry, when a store call throws at row k the request answers
\* 500 with an error text, and the tables hold the Module, the Session and the
\* Student and Attendance rows of the rows before k, at most the Student of row
\* k besides, and nothing of a later row; when the same request is submitted
\* next and succeeds, the tables are what an import without an error leaves
\* from the tables the failed request started from
C22_PartialThenRetry ==
  \A k \in Answered :
    /\ FailedAtRow(log[k]) =>
         /\ log[k].resp.error # ""
         /\ Get(log[k].db) =
              IF log[k].at = "loop"
              THEN ImportedUpTo(Get(log[k].db0), log[k], log[k].i)
              ELSE WithStudent(ImportedUpTo(Get(log[k].db0), log[k], log[k].i),
                               Layout(log[k].lines), log[k].i)
    /\ (k > 1 /\ FailedAtRow(log[k - 1]) /\ log[k].req = log[k - 1].req /\ Succeeded(log[k]))
         => Get(log[k].db) = Uninterrupted(Get(log[k - 1].db0), log[k])

\* an import failed at the attendance upsert of its second row, into a store
\* that held rows, leaving the first row written; the same request submitted
\* again has succeeded and written more
C22_Witness ==
  \E k \in Answered :
    /\ k > 1 /\ FailedAtRow(log[k - 1]) /\ log[k].req = log[k - 1].req /\ Succeeded(log[k])
    /\ log[k - 1].at = "attendance"
    /\ \E i \in Layout(log[k].lines).rows : i < log[k - 1].i
    /\ Get(log[k - 1].db0).Attendance # {}
    /\ Get(log[k - 1].db).Attendance # Get(log[k - 1].db0).Attendance
    /\ Get(log[k].db).Attendance # Get(log[k - 1].db).Attendance

(***************************************************************************)
(* Requests of different cohorts in flight together (SpecCohorts)          *)
(***************************************************************************)
\* the rows of a store without their generated ids: a Session by its key, an
\* Attendance row by the key of its Session and the email of its Student
Content(db) ==
  [Module  |-> db.Module,
   Session |-> {[c \in DOMAIN r \ {"id"} |-> r[c]] : r \in db.Session},
   Student |-> {[email |-> st.email, name |-> st.name] : st \in db.Student},
   Attendance |->
     {[sessionKey |-> (CHOOSE r \in db.Session : r.id = a.sessionId).sessionKey,
       email |-> (CHOOSE st \in db.Student : st.id = a.studentId).email,
       row |-> [c \in DOMAIN a \ {"id", "sessionId", "studentId"} |-> a[c]]] :
        a \in db.Attendance}]

\* requests a and b differ in module, intake or year
DifferentCohort(a, b) == <<a.tuple[1], a.tuple[2], a.tuple[3]>> # <<b.tuple[1], b.tuple[2], b.tuple[3]>>

\* C21: under SpecCohorts, once two successful requests of different cohorts
\* have been answered, in whatever order their store calls ran, the rows of
\* all tables (ids aside) are those of running the first answered request to
\* its end and then the second, and those of running them the other way round
C21_CohortsIndependent ==
  (/\ Settled /\ Len(log) = 2
   /\ Succeeded(log[1]) /\ Succeeded(log[2]) /\ DifferentCohort(log[1], log[2])) =>
      /\ Content(Tables) = Content(Uninterrupted(Uninterrupted(EmptyStore, log[1]), log[2]))
      /\ Content(Tables) = Content(Uninterrupted(Uninterrupted(EmptyStore, log[2]), log[1]))

(***************************************************************************)
(* The three imports on one store (SpecImports)                            *)
(***************************************************************************)
\* the name the store holds for an email
StoredName(email) == (CHOOSE st \in Student : st.email = email).name

\* the attendance import has just upserted the Student of its current row
AfterAttendanceStudent == proc["p1"].pc = "attendance"

\* the trimmed Name cell of the attendance import's current row, null when empty
CurrentRowName ==
  LET loc == proc["p1"]
      nm  == Trim(At0(Split(Line(loc.lines, loc.i), "\t"), loc.idxName))
  IN  IF nm = "" THEN None ELSE Some(nm)

\* the enrollment import has just upserted the Student of its current row
AfterEnrollmentStudent == job.kind = "enrollments" /\ job.pc = "enrollment"

\* C23: under SpecImports, whenever an attendance or enrollment import has
\* processed a row, the name stored for the row's email is the name of that
\* row, null when the row has none: names change at no other step, so the
\* stored name is always that of the row processed last
C23_NameLastWriteWins ==
  /\ AfterAttendanceStudent => StoredName(rowIdentity(proc["p1"])) = CurrentRowName
  /\ AfterEnrollmentStudent => StoredName(enrEmail(JobRow)) = enrName(JobRow)

\* C26: under SpecImports, a step of the attendance import leaves every
\* Module row, every Program row and every link of a module to a programme
\* as it is; its module upsert leaves a Module with the resolved code in the
\* table, and a row it adds has that code as its name
C26_ModuleLeftAlone ==
  [][ proc' # proc =>
        /\ \A m \in Module : m \in Module'
        /\ \A m \in Module' \ Module : m.code = proc["p1"].moduleCode /\ m.name = m.code
        /\ (proc["p1"].pc = "module" /\ proc'["p1"].pc = "session")
             => \E m \in Module' : m.code = proc["p1"].moduleCode
        /\ Program' = Program
        /\ ProgramModule' = ProgramModule ]_vars

\* an attendance import has succeeded for a module that the module-master
\* import had named and linked to a programme, and the name is still there
C26_Witness ==
  /\ proc["p1"].pc = "done" /\ log # <<>>
  /\ Succeeded(log[Len(log)])
  /\ \E m \in Module :
       /\ m.code = log[Len(log)].resp.moduleCode
       /\ m.name # m.code
       /\ m \in Get(log[Len(log)].db0).Module
       /\ \E l \in ProgramModule : l.moduleCode = m.code

\* code and email are their own normal forms, and are keys
Normalized(M, S) ==
  /\ \A m \in M : m.code = ToUpperCase(Trim(m.code))
  /\ \A st \in S : st.email = ToLowerCase(Trim(st.email))

\* C27: under SpecImports every Module.code is its own trimmed, upper-cased
\* form and every Student.email its own trimmed, lower-cased form, and no two
\* Module rows have one code and no two Student rows one email, so no two
\* rows differ only in letter case or surrounding blanks: this holds of the
\* initial tables, every step keeps the keys unique, and every row a step
\* adds or changes is in normal form
C27_NormalizedKeys ==
  /\ Normalized(Module, Student)
  /\ [][ /\ Normalized(Module' \ Module, Student' \ Student)
         /\ \A m, n \in Module' : m.code = n.code => m = n
         /\ \A a, b \in Student' : a.email = b.email => a = b ]_vars

\* the module-master import has stored a module whose code the sheet holds in
\* small letters between blanks, and an enrollment import a student whose
\* email the file holds in capitals between blanks
C27_Witness ==
  /\ job.kind = "enrollments" /\ job.pc = "done" /\ IsSome(job.file)
  /\ \E i \in 1..Len(Get(job.file).rows) :
       LET r == Get(job.file).rows[i]
       IN  /\ OrElse(r.StudentEmail, "") # enrEmail(r)
           /\ \E st \in Student : st.email = enrEmail(r)
  /\ \E file \in ModuleFiles \ {None} : \E i \in 1..Len(Get(file).rows) :
       /\ Get(file).rows[i].ModuleCode # normCode(Get(file).rows[i].ModuleCode)
       /\ \E m \in Module :
            /\ m.code = normCode(Get(file).rows[i].ModuleCode)
            /\ m.name = Trim(Get(file).rows[i].ModuleName)

\* C28: in every state of SpecImports, between any two store calls of an
\* import and after an import that ended in an error, every Session and every
\* Enrollment names a Module of the table, every Enrollment and every
\* Attendance row a Student of the table, and every Attendance row a Session
\* of the table: a row is never written before the rows it refers to
C28_ReferencesExist ==
  /\ \A r \in Session : \E m \in Module : m.code = r.moduleCode
  /\ \A e \in Enrollment :
       /\ \E m \in Module : m.code = e.moduleCode
       /\ \E st \in Student : st.id = e.studentId
  /\ \A a \in Attendance :
       /\ \E r \in Session : r.id = a.sessionId
       /\ \E st \in Student : st.id = a.studentId
  /\ \A l \in ProgramModule :
       /\ \E m \in Module : m.code = l.moduleCode
       /\ \E g \in Program : g.id = l.programId

\* an enrollment import that failed at its third row has left its first rows'
\* Module, Student and Enrollment, after an attendance import that failed
\* between the Student and the Attendance of a row had left Session and Student
C28_Witness ==
  /\ job.kind = "enrollments" /\ job.pc = "done" /\ Get(job.resp).status = 500
  /\ Enrollment # {}
  /\ \E st \in Student :
       /\ \A a \in Attendance : a.studentId # st.id
       /\ \A e \in Enrollment : e.studentId # st.id
  /\ \E k \in LogIdx :
       /\ log[k].resp.status = 500 /\ log[k].at = "attendance"
       /\ \E r \in Session : r.sessionKey = log[k].sessionKey

\* the cohorts the tables name
Cohorts == {CohortKey(r) : r \in Session} \cup {CohortKey(e) : e \in Enrollment}

\* a row of the dashboard is in range
RowInRange(r) ==
  /\ r.sessionsAttended <= r.sessionsHeld
  /\ ~r.attendancePct.nan
  /\ 0 <= r.attendancePct.num
  /\ r.attendancePct.num <= 100 * r.attendancePct.scale
  /\ r.sessionsHeld = 0 => r.attendancePct = Num(0)

\* C30: in every state of SpecImports, every row of the cohort summary of
\* every cohort and every row of the view of every student has
\* sessionsAttended <= sessionsHeld and an attendancePct from 0 to 100, which
\* is 0 when sessionsHeld is 0
C30_AttendedAtMostHeld ==
  /\ \A k \in Cohorts : \A r \in cohortSummaryRows(k) : RowInRange(r)
  /\ \A st \in Student : \A r \in selectedModuleRows(st.id) : RowInRange(r)

\* the dashboard shows a student who attended one of two sessions of a
\* cohort, in the cohort summary and in the student's view, with 50
C30_Witness ==
  /\ \E k \in Cohorts : \E r \in cohortSummaryRows(k) :
       r.sessionsAttended = 1 /\ r.sessionsHeld = 2 /\ r.attendancePct = Num(50)
  /\ \E st \in Student : \E r \in selectedModuleRows(st.id) :
       r.sessionsAttended = 1 /\ r.sessionsHeld = 2 /\ r.attendancePct = Num(50)

====
